---- MODULE Spec2Model ----
(***************************************************************************)
(* SemesterFlow: the schedule generator generateMasterSchedule, in its two *)
(* variants:                                                               *)
(*   "tagged"  src/utils/dateUtils.ts 651-767 (phase-tagged rows)           *)
(*   "safe"    src/unnamed/part_001 278-400 (safety counter, addYears      *)
(*             guard; the same code is at src/utils/dateUtils.ts 228-346)  *)
(*                                                                         *)
(* Calendar dates are day numbers (Int); day 0 is a Monday.  A date string *)
(* is a record [k, day]: k = "iso" is the yyyy-MM-dd string of day `day`,  *)
(* k = "empty" the empty string, k = "garbage" a string parseISO rejects.  *)
(* A Date object is a record [ok, day]; ok = FALSE is an Invalid Date.     *)
(* Labels and reasons are tuples of their concatenated parts.              *)
(***************************************************************************)
EXTENDS Integers, Sequences, FiniteSets, TLC

VARIABLES config, variant, pc, rows, subjectLUCounters, phaseIdx, d,
          caDates, eventDates, currentPhasePointer, phaseLimitDate,
          currentProcessingDate, lastDateToFill, safetyCounter,
          returned, programStats,
          loading, importPc, file, promise, localConfig, alerts, configAtUpload,
          uploads, parserVersion,
          excelCell, excelZone, excelDate

vars == <<config, variant, pc, rows, subjectLUCounters, phaseIdx, d,
          caDates, eventDates, currentPhasePointer, phaseLimitDate,
          currentProcessingDate, lastDateToFill, safetyCounter,
          returned, programStats,
          loading, importPc, file, promise, localConfig, alerts, configAtUpload,
          uploads, parserVersion,
          excelCell, excelZone, excelDate>>

\* The state of App.handleFileUpload and of the parseExcelImport it awaits:
\* loading is the App's loading flag, importPc the position of the upload,
\* file the chosen file, promise the state of the promise parseExcelImport
\* returned, localConfig the `config` object local to reader.onload when it
\* ended, alerts the number of error alerts shown, configAtUpload the App's
\* config when the file was chosen, uploads the number of files chosen so far,
\* parserVersion which parseExcelImport is in use.
importVars == <<loading, importPc, file, promise, localConfig, alerts, configAtUpload,
                uploads, parserVersion>>

\* A call of parseExcelDate: excelCell is the cell value it is given, excelZone
\* the difference, in quarter hours, between the local UTC offset at the
\* resulting instant and at the spreadsheet epoch (daylight saving time, a
\* changed standard time), excelDate what it returned.
excelVars == <<excelCell, excelZone, excelDate>>

\* What lives outside a call of generateMasterSchedule: returned maps
\* <<variant, config>> to the schedule the first finished call for it returned;
\* programStats is the App's memoized calculateProgramStats(masterSchedule),
\* empty until it has been computed.
appVars == <<returned, programStats, importVars, excelVars>>

(* ------------------------------ bounds --------------------------------- *)
MaxTermLen == 9
MaxCount == 2
MaxLUs == 3
MaxOverrun == 2

(* ------------------------- program constants --------------------------- *)
MAX_DAYS == 5000

DAYS_OF_WEEK == <<"Monday", "Tuesday", "Wednesday", "Thursday", "Friday", "Saturday", "Sunday">>

(* ------------------------- calendar utilities -------------------------- *)
Min(a, b) == IF a <= b THEN a ELSE b

Max(a, b) == IF a >= b THEN a ELSE b

formatDate(date) == [k |-> "iso", day |-> date]

getDayName(date) == DAYS_OF_WEEK[(date % 7) + 1]

parseISO(s) == IF s.k = "iso" THEN [ok |-> TRUE, day |-> s.day] ELSE [ok |-> FALSE, day |-> 0]

isValid(date) == date.ok

isAfter(a, b) == a > b

isBefore(a, b) == a < b

isSameDay(a, b) == a = b

addDays(date, n) == date + n

\* n calendar years later: at least 365 * n days later.
addYears(date, n) == date + 365 * n

differenceInDays(a, b) == a - b

\* JavaScript's % on integers: the sign of the result is the dividend's.
JsRem(a, b) == IF a >= 0 THEN a % b ELSE 0 - ((0 - a) % b)

\* Array.prototype.slice(from, to); a negative index counts from the end.
JsSlice(s, from, to) ==
    LET n == Len(s)
        lo == IF from < 0 THEN Max(n + from, 0) ELSE Min(from, n)
        hi == IF to < 0 THEN Max(n + to, 0) ELSE Min(to, n)
    IN  IF hi > lo THEN SubSeq(s, lo + 1, hi) ELSE <<>>

\* Array.prototype.slice(from): up to the end of the array.
JsSliceFrom(s, from) == JsSlice(s, from, Len(s))

\* The dates lo, lo+1, ..., hi in ascending order (empty when hi < lo).
DateRange(lo, hi) == IF hi >= lo THEN [i \in 1..(hi - lo + 1) |-> lo + i - 1] ELSE <<>>

Elems(s) == {s[i] : i \in 1..Len(s)}

(* --------------------------- configuration ----------------------------- *)
start == parseISO(config.startDate).day

end == parseISO(config.endDate).day

holidaySet == {config.holidays[i].date : i \in 1..Len(config.holidays)}

\* new Map(pairs).get(key): the value of the last pair with that key.
holidayMapGet(dateStr) ==
    LET idx == {i \in 1..Len(config.holidays) : config.holidays[i].date = dateStr}
    IN  config.holidays[CHOOSE i \in idx : \A j \in idx : j <= i].reason

\* config.weeklyPattern[dayName]?.[slotId]; "undefined" when there is no entry.
patternLookup(dayName, slotId) ==
    IF dayName \in DOMAIN config.weeklyPattern /\ slotId \in DOMAIN config.weeklyPattern[dayName]
    THEN config.weeklyPattern[dayName][slotId]
    ELSE "undefined"

\* A mistaken lookup: an id that is not in the roster resolves to the first
\* subject of the roster.
findSubjectOrFirst(id) ==
    LET idx == {i \in 1..Len(config.subjects) : config.subjects[i].id = id}
    IN  IF idx = {} THEN Min(1, Len(config.subjects)) ELSE CHOOSE i \in idx : \A j \in idx : i <= j

\* config.subjects.find(s => s.id === id): index of the first match, 0 when none.
findSubject(id) ==
    LET idx == {i \in 1..Len(config.subjects) : config.subjects[i].id = id}
    IN  IF idx = {} THEN 0 ELSE CHOOSE i \in idx : \A j \in idx : i <= j

\* A mistaken lookup: the last module whose range contains the LU.
findLastModule(sub, currentLU) ==
    LET idx == {i \in 1..Len(sub.modules) : currentLU >= sub.modules[i].startLU /\ currentLU <= sub.modules[i].endLU}
    IN  IF idx = {} THEN 0 ELSE CHOOSE i \in idx : \A j \in idx : j <= i

\* sub.modules.find(m => currentLU >= m.startLU && currentLU <= m.endLU)
findModule(sub, currentLU) ==
    LET idx == {i \in 1..Len(sub.modules) : currentLU >= sub.modules[i].startLU /\ currentLU <= sub.modules[i].endLU}
    IN  IF idx = {} THEN 0 ELSE CHOOSE i \in idx : \A j \in idx : i <= j

\* (subjectLUCounters[subId] || 0)
counterOf(counters, subId) == IF subId \in DOMAIN counters THEN counters[subId] ELSE 0

isActuallyWorking(date) ==
    getDayName(date) \in config.workingDays /\ formatDate(date) \notin holidaySet

isWorking(date) ==
    getDayName(date) \in config.workingDays /\ formatDate(date) \notin holidaySet

(* --------------------------- day materializer -------------------------- *)
\* A mistaken status chain: the rest-day test comes before the holiday test.
dayStatusRestDayFirst(date, type) ==
    IF getDayName(date) \notin config.workingDays THEN "weekend"
    ELSE IF formatDate(date) \in holidaySet THEN "holiday"
    ELSE IF type = "ca" THEN "ca"
    ELSE IF type = "event" THEN "event"
    ELSE "working"

\* A mistaken status chain: the rest-day test is missing.
dayStatusNoRestDay(date, type) ==
    IF formatDate(date) \in holidaySet THEN "holiday"
    ELSE IF type = "ca" THEN "ca"
    ELSE IF type = "event" THEN "event"
    ELSE "working"

\* A mistaken classification: a configured holiday is reported as 'blocked'.
dayStatusBlocksHolidays(date, type) ==
    IF formatDate(date) \in holidaySet THEN "blocked"
    ELSE IF getDayName(date) \notin config.workingDays THEN "weekend"
    ELSE IF type = "ca" THEN "ca"
    ELSE IF type = "event" THEN "event"
    ELSE "working"

\* The status chain of addDay / addDayToSchedule: holiday, then rest day, then
\* the phase windower's classification.
dayStatus(date, type) ==
    IF formatDate(date) \in holidaySet THEN "holiday"
    ELSE IF getDayName(date) \notin config.workingDays THEN "weekend"
    ELSE IF type = "ca" THEN "ca"
    ELSE IF type = "event" THEN "event"
    ELSE "working"

\* caRef is a phase record, or NoPhase when addDay is called without one.
NoPhase == [id |-> "undefined", label |-> "undefined", weekOrder |-> 0, duration |-> 0, eventDays |-> 0]

dayReason(date, type, caRef) ==
    IF formatDate(date) \in holidaySet
    THEN (IF holidayMapGet(formatDate(date)) = "" THEN <<"Holiday">> ELSE <<holidayMapGet(formatDate(date))>>)
    ELSE IF getDayName(date) \notin config.workingDays THEN <<"Rest Day">>
    ELSE IF type = "ca" THEN (IF caRef = NoPhase \/ caRef.label = "" THEN <<"Assessment">> ELSE <<caRef.label>>)
    ELSE IF type = "event" THEN <<"Event (", caRef.label, ")">>
    ELSE <<>>

\* sub.courseIdMap?.[currentLU] || sub.courseId
resolveCourseId(sub, currentLU) ==
    IF currentLU \in DOMAIN sub.courseIdMap /\ sub.courseIdMap[currentLU] # ""
    THEN sub.courseIdMap[currentLU]
    ELSE sub.courseId

\* activeMod?.color || sub.color
resolveColor(sub, currentLU) ==
    IF findModule(sub, currentLU) # 0 THEN sub.modules[findModule(sub, currentLU)].color ELSE sub.color

\* The occupancy of a slot the weekly pattern gives to subject sub, whose LU
\* counter has just become currentLU (tracked subjects only).
subjectMapping(v, sub, currentLU) ==
    IF sub.totalLUs > 0
    THEN IF currentLU <= sub.totalLUs
         THEN IF v = "tagged"
              THEN [type |-> "subject", label |-> <<sub.name, " - LU ", currentLU>>,
                    color |-> resolveColor(sub, currentLU), subjectId |-> sub.id,
                    luNumber |-> currentLU, courseId |-> resolveCourseId(sub, currentLU)]
              ELSE [type |-> "subject", label |-> <<sub.name, " - LU ", currentLU>>,
                    color |-> resolveColor(sub, currentLU), subjectId |-> sub.id,
                    luNumber |-> currentLU]
         ELSE IF v = "tagged"
              THEN [type |-> "subject", label |-> <<sub.name, " - completed">>,
                    color |-> "#94a3b8", subjectId |-> sub.id, courseId |-> sub.courseId]
              ELSE [type |-> "subject", label |-> <<sub.name, " - completed">>,
                    color |-> "#94a3b8", subjectId |-> sub.id]
    ELSE IF v = "tagged"
         THEN [type |-> "subject", label |-> <<sub.name>>, color |-> sub.color,
               subjectId |-> sub.id, courseId |-> sub.courseId]
         ELSE [type |-> "subject", label |-> <<sub.name>>, color |-> sub.color,
               subjectId |-> sub.id]

\* A mistaken counter update: the counter restarts instead of advancing.
bumpCounterRestarts(counters, subId) ==
    [x \in DOMAIN counters \cup {subId} |-> IF x = subId THEN 1 ELSE counters[x]]

\* A mistaken counter update: the counter advances by two.
bumpCounterTwice(counters, subId) ==
    [x \in DOMAIN counters \cup {subId} |-> IF x = subId THEN counterOf(counters, subId) + 2 ELSE counters[x]]

\* subjectLUCounters[subId] = (subjectLUCounters[subId] || 0) + 1
bumpCounter(counters, subId) ==
    [x \in DOMAIN counters \cup {subId} |-> IF x = subId THEN counterOf(counters, subId) + 1 ELSE counters[x]]

\* slotMappings[slot.id] = m
putSlot(sm, slotId, m) == [x \in DOMAIN sm \cup {slotId} |-> IF x = slotId THEN m ELSE sm[x]]

\* A mistaken iteration: the weekly pattern is consulted on holidays too.
slotStepHolidayTeaches(v, slotId, dayName, status, acc) ==
    IF status = "ca" THEN [sm |-> putSlot(acc.sm, slotId, [type |-> "ca", label |-> <<"ASSESSMENT">>]), counters |-> acc.counters]
    ELSE IF status = "event" THEN [sm |-> putSlot(acc.sm, slotId, [type |-> "event", label |-> <<"EVENT">>]), counters |-> acc.counters]
    ELSE IF status = "working" \/ status = "holiday"
    THEN LET subId == patternLookup(dayName, slotId)
             si == findSubject(subId)
         IN  IF si # 0
             THEN IF config.subjects[si].totalLUs > 0
                  THEN [sm |-> putSlot(acc.sm, slotId, subjectMapping(v, config.subjects[si], bumpCounter(acc.counters, subId)[subId])),
                        counters |-> bumpCounter(acc.counters, subId)]
                  ELSE [sm |-> putSlot(acc.sm, slotId, subjectMapping(v, config.subjects[si], 0)), counters |-> acc.counters]
             ELSE [sm |-> putSlot(acc.sm, slotId, [type |-> "empty", label |-> <<>>]), counters |-> acc.counters]
    ELSE [sm |-> putSlot(acc.sm, slotId, [type |-> "empty", label |-> <<>>]), counters |-> acc.counters]

\* One iteration of config.slots.forEach: the occupancy of one slot, and the
\* LU counters after it.
slotStep(v, slotId, dayName, status, acc) ==
    IF status = "ca" THEN [sm |-> putSlot(acc.sm, slotId, [type |-> "ca", label |-> <<"ASSESSMENT">>]), counters |-> acc.counters]
    ELSE IF status = "event" THEN [sm |-> putSlot(acc.sm, slotId, [type |-> "event", label |-> <<"EVENT">>]), counters |-> acc.counters]
    ELSE IF status = "working"
    THEN LET subId == patternLookup(dayName, slotId)
             si == findSubject(subId)
         IN  IF si # 0
             THEN IF config.subjects[si].totalLUs > 0
                  THEN [sm |-> putSlot(acc.sm, slotId, subjectMapping(v, config.subjects[si], bumpCounter(acc.counters, subId)[subId])),
                        counters |-> bumpCounter(acc.counters, subId)]
                  ELSE [sm |-> putSlot(acc.sm, slotId, subjectMapping(v, config.subjects[si], 0)), counters |-> acc.counters]
             ELSE [sm |-> putSlot(acc.sm, slotId, [type |-> "empty", label |-> <<>>]), counters |-> acc.counters]
    ELSE [sm |-> putSlot(acc.sm, slotId, [type |-> "empty", label |-> <<>>]), counters |-> acc.counters]

RECURSIVE forEachSlot(_, _, _, _, _)
\* config.slots.forEach(...) from slot i on, in slot-definition order.
forEachSlot(v, i, dayName, status, acc) ==
    IF i > Len(config.slots) THEN acc
    ELSE forEachSlot(v, i + 1, dayName, status, slotStep(v, config.slots[i].id, dayName, status, acc))

EmptyMap == [x \in {} |-> 0]

\* addDay of the phase-tagged variant: the Day Record pushed for `date`, and the
\* LU counters after it.
addDay(date, type, phaseId, caRef, counters) ==
    LET diff == differenceInDays(date, start)
        status == dayStatus(date, type)
        res == forEachSlot("tagged", 1, getDayName(date), status, [sm |-> EmptyMap, counters |-> counters])
    IN  [row |-> [date |-> formatDate(date), dayName |-> getDayName(date),
                  weekNumber |-> (diff \div 7) + 1, dayInWeek |-> JsRem(diff, 7) + 1,
                  phaseId |-> phaseId, status |-> status,
                  reason |-> dayReason(date, type, caRef), slotMappings |-> res.sm],
         counters |-> res.counters]

\* addDayToSchedule of the safety-counter variant, for a date not after end
\* (for a later date it returns false and pushes nothing).
addDayToSchedule(date, type, caRef, counters) ==
    LET diffFromStart == differenceInDays(date, start)
        status == dayStatus(date, type)
        res == forEachSlot("safe", 1, getDayName(date), status, [sm |-> EmptyMap, counters |-> counters])
    IN  [row |-> [date |-> formatDate(date), dayName |-> getDayName(date),
                  weekNumber |-> (diffFromStart \div 7) + 1, dayInWeek |-> JsRem(diffFromStart, 7) + 1,
                  status |-> status,
                  reason |-> dayReason(date, type, caRef), slotMappings |-> res.sm],
         counters |-> res.counters]

(* ----------------------------- phase windower -------------------------- *)
\* const relativeWeeks = ca.weekOrder || 1
relativeWeeks(ca) == IF ca.weekOrder = 0 THEN 1 ELSE ca.weekOrder

\* A mistaken clamp: a window that would pass the term end is made to include
\* the term-end date.
phaseLimitPastEnd(cursor, ca) ==
    IF isAfter(addDays(cursor, relativeWeeks(ca) * 7), end) THEN addDays(end, 1)
    ELSE addDays(cursor, relativeWeeks(ca) * 7)

\* phaseLimitDate of the phase-tagged variant: cursor + relativeWeeks weeks,
\* set to the term end when it is after it.
phaseLimit(cursor, ca) ==
    IF isAfter(addDays(cursor, relativeWeeks(ca) * 7), end) THEN end
    ELSE addDays(cursor, relativeWeeks(ca) * 7)

\* A mistaken loop bound: the window's end date is visited too.
inWindowInclusive(date, limit) == ~isAfter(date, limit) /\ ~isAfter(date, end)

\* The condition of both loops over a phase window:
\* isBefore(d, phaseLimitDate) && !isAfter(d, end)
inWindow(date, limit) == isBefore(date, limit) /\ ~isAfter(date, end)

\* The dates the loop at dateUtils.ts 724 visits: from cursor while inWindow.
windowDates(cursor, limit) == DateRange(cursor, Min(limit - 1, end))

\* A mistaken filter: the holidays of the window count as working days, so a
\* block planned on one loses that day.
workingDaysInPhaseWithHolidays(cursor, limit) ==
    SelectSeq(windowDates(cursor, limit), LAMBDA date : getDayName(date) \in config.workingDays)

workingDaysInPhase(cursor, limit) == SelectSeq(windowDates(cursor, limit), isActuallyWorking)

\* A mistaken block: the assessment days are taken from the window's start
\* also when the window is long enough.
taggedCaDatesFromStart(w, ca) ==
    IF ca.duration + ca.eventDays > 0 THEN JsSlice(w, 0, ca.duration) ELSE <<>>

\* A mistaken block: in a window that is too short the assessment days are
\* taken from the window's end.
taggedCaDatesShortFromEnd(w, ca) ==
    IF ca.duration + ca.eventDays > 0 /\ Len(w) >= ca.duration + ca.eventDays
    THEN (IF ca.duration > 0
          THEN JsSlice(JsSliceFrom(w, 0 - (ca.duration + ca.eventDays)), 0, ca.duration)
          ELSE <<>>)
    ELSE IF ca.duration > 0 THEN JsSliceFrom(w, 0 - ca.duration)
    ELSE <<>>

\* A mistaken block: the whole block is assessment, the event days included.
taggedCaDatesWholeBlock(w, ca) ==
    IF ca.duration + ca.eventDays > 0 /\ Len(w) >= ca.duration + ca.eventDays
    THEN (IF ca.duration > 0 THEN JsSliceFrom(w, 0 - (ca.duration + ca.eventDays)) ELSE <<>>)
    ELSE IF ca.duration + ca.eventDays > 0 THEN JsSlice(w, 0, ca.duration)
    ELSE <<>>

taggedCaDates(w, ca) ==
    IF ca.duration + ca.eventDays > 0 /\ Len(w) >= ca.duration + ca.eventDays
    THEN (IF ca.duration > 0
          THEN JsSlice(JsSliceFrom(w, 0 - (ca.duration + ca.eventDays)), 0, ca.duration)
          ELSE <<>>)
    ELSE IF ca.duration + ca.eventDays > 0 THEN JsSlice(w, 0, ca.duration)
    ELSE <<>>

taggedEventDates(w, ca) ==
    IF ca.duration + ca.eventDays > 0 /\ Len(w) >= ca.duration + ca.eventDays
    THEN (IF ca.eventDays > 0
          THEN JsSliceFrom(JsSliceFrom(w, 0 - (ca.duration + ca.eventDays)), 0 - ca.eventDays)
          ELSE <<>>)
    ELSE IF ca.duration + ca.eventDays > 0
    THEN (IF Len(w) - Len(taggedCaDates(w, ca)) > 0 /\ ca.eventDays > 0
          THEN JsSlice(w, Len(taggedCaDates(w, ca)), Len(taggedCaDates(w, ca)) + ca.eventDays)
          ELSE <<>>)
    ELSE <<>>

\* phaseDates of the safety-counter variant: cursor + i for i < weekOrder * 7,
\* stopping at the first date after end.
phaseDates(cursor, ca) == DateRange(cursor, Min(cursor + ca.weekOrder * 7 - 1, end))

workingInPhase(cursor, ca) == SelectSeq(phaseDates(cursor, ca), isWorking)

\* workingInPhase.slice(-totalBlockNeeded).slice(0, ca.duration)
safeCaDates(w, ca) == JsSlice(JsSliceFrom(w, 0 - (ca.duration + ca.eventDays)), 0, ca.duration)

\* workingInPhase.slice(-ca.eventDays)
safeEventDates(w, ca) == JsSliceFrom(w, 0 - ca.eventDays)

\* const type = isCA ? 'ca' : (isEvent ? 'event' : 'normal')
dayType(date, cas, events) ==
    IF \E i \in 1..Len(cas) : isSameDay(cas[i], date) THEN "ca"
    ELSE IF \E i \in 1..Len(events) : isSameDay(events[i], date) THEN "event"
    ELSE "normal"

(* ------------------------ configurations explored ---------------------- *)
Iso(n) == [k |-> "iso", day |-> n]

EmptyString == [k |-> "empty", day |-> 0]

Garbage == [k |-> "garbage", day |-> 0]

Slots ==
    <<[id |-> "s1", startTime |-> <<"09", ":", "00">>, endTime |-> <<"10", ":", "30">>],
      [id |-> "s2", startTime |-> <<"11", ":", "00">>, endTime |-> <<"12", ":", "30">>]>>

Phase(i, w, dur, ev) ==
    [id |-> <<"p1", "p2">>[i], label |-> <<"CA1", "CA2">>[i], weekOrder |-> w, duration |-> dur, eventDays |-> ev]

SubjectA(total) ==
    [id |-> "A", name |-> "Algebra", color |-> "#6366f1", totalLUs |-> total,
     modules |-> <<[id |-> "m1", name |-> "Module 1", startLU |-> 1, endLU |-> 2, color |-> "#ec4899"]>>,
     courseId |-> "CRS-A", courseIdMap |-> (2 :> "CRS-A2"),
     mentorId |-> "M01", luIdMap |-> (1 :> "AP_LU_1")]

SubjectB(total) ==
    [id |-> "B", name |-> "Biology", color |-> "#f59e0b", totalLUs |-> total,
     modules |-> <<>>, courseId |-> "", courseIdMap |-> EmptyMap, defaultLuId |-> "BIO"]

MonToFri == {"Monday", "Tuesday", "Wednesday", "Thursday", "Friday"}

MonWedSat == {"Monday", "Wednesday", "Saturday"}

\* Friday of the first week without a reason; Tuesday of the second week twice.
SomeHolidays ==
    <<[id |-> "h1", date |-> Iso(4), reason |-> ""],
      [id |-> "h2", date |-> Iso(8), reason |-> "Founders Day"],
      [id |-> "h3", date |-> Iso(8), reason |-> "Strike"]>>

\* "G" is in no roster; Wednesday has no entry for s2, Sunday no entry at all.
FixedPattern ==
    [dn \in {"Monday", "Tuesday", "Wednesday", "Thursday", "Friday", "Saturday"} |->
        CASE dn = "Monday" -> ("s1" :> "A" @@ "s2" :> "B")
          [] dn = "Tuesday" -> ("s1" :> "A" @@ "s2" :> "A")
          [] dn = "Wednesday" -> ("s1" :> "G")
          [] dn = "Thursday" -> ("s1" :> "B" @@ "s2" :> "A")
          [] dn = "Friday" -> ("s1" :> "A" @@ "s2" :> "G")
          [] OTHER -> ("s1" :> "A" @@ "s2" :> "A")]

Cfg(s, e, wd, hol, cas, subjects, pattern) ==
    [squadNumber |-> <<"S", " ", "42">>, startDate |-> s, endDate |-> e, workingDays |-> wd, slots |-> Slots,
     subjects |-> subjects, weeklyPattern |-> pattern, holidays |-> hol, cas |-> cas]

Counts == 0..MaxCount

PhaseLists ==
    {<<>>}
    \cup {<<Phase(1, 1, a, b)>> : a \in Counts, b \in Counts}
    \cup {<<Phase(1, 1, a, b), Phase(2, 1, c, e)>> : a \in Counts, b \in Counts, c \in Counts, e \in Counts}

\* Terms of 1..MaxTermLen days starting on a Monday or a Thursday, with zero to
\* two one-week phases.
WindowConfigs ==
    {Cfg(Iso(s), Iso(s + n - 1), wd, hol, cas, <<SubjectA(3), SubjectB(0)>>, FixedPattern) :
        s \in {0, 3}, n \in 1..MaxTermLen, wd \in {MonToFri, MonWedSat},
        hol \in {<<>>, SomeHolidays}, cas \in PhaseLists}

\* A term of two weeks and two days: one two-week phase, or two one-week phases.
LongConfigs ==
    {Cfg(Iso(0), Iso(15), MonToFri, hol, cas, <<SubjectA(3), SubjectB(0)>>, FixedPattern) :
        hol \in {<<>>, SomeHolidays},
        cas \in {<<Phase(1, 2, a, b)>> : a \in Counts, b \in Counts}
                \cup {<<Phase(1, 1, a, b), Phase(2, 1, b, a)>> : a \in Counts, b \in Counts}}

\* Weekly patterns over Monday and Tuesday, LU totals 0..MaxLUs.
Patterns == [{"Monday", "Tuesday"} -> [{"s1", "s2"} -> {"A", "B", "G"}]]

SubjectConfigs ==
    {Cfg(Iso(0), Iso(8), {"Monday", "Tuesday"}, <<>>, cas, <<SubjectA(ta), SubjectB(tb)>>, pat) :
        cas \in {<<>>, <<Phase(1, 1, 1, 0)>>}, ta \in 0..MaxLUs, tb \in {0, 1}, pat \in Patterns}

\* Counts and week orders the phase editor accepts although they are negative.
NegativeLists ==
    {<<Phase(1, 1, 0 - 1, 4)>>, <<Phase(1, 1, 0 - 1, 1)>>, <<Phase(1, 1, 2, 0 - 1)>>, <<Phase(1, 1, 4, 0 - 1)>>,
     <<Phase(1, 1, 1, 1), Phase(2, 0 - 1, 1, 0)>>, <<Phase(1, 0 - 1, 1, 1), Phase(2, 1, 1, 1)>>}

NegativeConfigs ==
    {Cfg(Iso(7), Iso(7 + n), wd, <<>>, cas, <<SubjectA(3), SubjectB(0)>>, FixedPattern) :
        n \in {5, 9}, wd \in {MonToFri, MonWedSat}, cas \in NegativeLists}

\* Missing or unparsable dates, and a start after the end.
InvalidConfigs ==
    {Cfg(s, e, MonToFri, <<>>, cas, <<SubjectA(3), SubjectB(0)>>, FixedPattern) :
        s \in {EmptyString, Garbage, Iso(3), Iso(9)}, e \in {EmptyString, Garbage, Iso(5)},
        cas \in {<<>>, <<Phase(1, 1, 1, 0)>>, <<Phase(1, 1, 1, 1), Phase(2, 1, 0, 1)>>}}

\* Two one-week phases whose labels the phase editor accepts: distinct, equal,
\* one contained in the other, or empty.
LabelPairs ==
    {<<"CA1", "CA2">>, <<"CA10", "CA1">>, <<"CA1", "CA10">>, <<"CA", "CA">>, <<"CA1", "">>, <<"", "CA1">>}

Labelled(phase, label) == [phase EXCEPT !.label = label]

LabelConfigs ==
    {Cfg(Iso(0), Iso(13), MonWedSat, <<>>,
         <<Labelled(Phase(1, 1, 1, 0), lp[1]), Labelled(Phase(2, 1, dur, 0), lp[2])>>,
         <<SubjectA(3), SubjectB(1)>>, FixedPattern) :
        lp \in LabelPairs, dur \in {0, 1}}

\* Algebra with two modules whose LU ranges overlap at LU 2, as the module
\* editor allows.
OverlappingModules(sub) ==
    [sub EXCEPT !.modules =
        <<[id |-> "m1", name |-> "Module 1", startLU |-> 1, endLU |-> 2, color |-> "#ec4899"],
          [id |-> "m2", name |-> "Module 2", startLU |-> 2, endLU |-> 3, color |-> "#10b981"]>>]

ModuleConfigs ==
    {Cfg(Iso(0), Iso(n), MonToFri, <<>>, <<>>, <<OverlappingModules(SubjectA(ta)), SubjectB(0)>>, FixedPattern) :
        n \in {1, 4}, ta \in {2, MaxLUs}}

Configs ==
    WindowConfigs \cup LongConfigs \cup SubjectConfigs \cup NegativeConfigs \cup InvalidConfigs \cup LabelConfigs
        \cup ModuleConfigs

(* ------------------------------- actions -------------------------------- *)
\* A file that names nothing.
NoFile == [readable |-> FALSE, throwsAt |-> 0, sheets |-> {}]

\* No upload is under way (App.tsx 614: loading starts false).
ImportIdle ==
    /\ loading = FALSE
    /\ importPc = "idle"
    /\ file = NoFile
    /\ promise = "none"
    /\ localConfig = EmptyMap
    /\ alerts = 0
    /\ configAtUpload = EmptyMap
    /\ uploads = 0

\* No call has returned yet, no file has been chosen.
NoCell == [k |-> "none", day |-> 0, q |-> 0]

NotParsed == [k |-> "pending", day |-> 0]

ExcelIdle == excelCell = NoCell /\ excelZone = 0 /\ excelDate = NotParsed

AppIdle == returned = <<>> /\ programStats = <<>> /\ ImportIdle /\ parserVersion = "current" /\ ExcelIdle

Init ==
    /\ config \in Configs
    /\ variant \in {"tagged", "safe"}
    /\ pc = "start"
    /\ rows = <<>>
    /\ subjectLUCounters = EmptyMap
    /\ phaseIdx = 0
    /\ d = 0
    /\ caDates = <<>>
    /\ eventDates = <<>>
    /\ currentPhasePointer = 0
    /\ phaseLimitDate = 0
    /\ currentProcessingDate = 0
    /\ lastDateToFill = 0
    /\ safetyCounter = 0
    /\ AppIdle

\* A mistaken start of a call: the LU counter table of the previous call is
\* kept.
TaggedBeginKeepsCounters ==
    /\ pc = "start" /\ variant = "tagged"
    /\ IF config.startDate.k = "empty" \/ config.endDate.k = "empty"
          \/ ~isValid(parseISO(config.startDate)) \/ ~isValid(parseISO(config.endDate))
       THEN pc' = "done" /\ UNCHANGED <<currentPhasePointer, phaseIdx>>
       ELSE pc' = "phase" /\ currentPhasePointer' = start /\ phaseIdx' = 1
    /\ rows' = <<>> /\ UNCHANGED subjectLUCounters
    /\ UNCHANGED appVars /\ UNCHANGED <<config, variant, d, caDates, eventDates, phaseLimitDate,
                   currentProcessingDate, lastDateToFill, safetyCounter>>

\* dateUtils.ts 652-660, 713: the guards, then the cursor at the term start.
TaggedBegin ==
    /\ pc = "start" /\ variant = "tagged"
    /\ IF config.startDate.k = "empty" \/ config.endDate.k = "empty"
          \/ ~isValid(parseISO(config.startDate)) \/ ~isValid(parseISO(config.endDate))
       THEN pc' = "done" /\ UNCHANGED <<currentPhasePointer, phaseIdx>>
       ELSE pc' = "phase" /\ currentPhasePointer' = start /\ phaseIdx' = 1
    /\ rows' = <<>> /\ subjectLUCounters' = EmptyMap
    /\ UNCHANGED appVars /\ UNCHANGED <<config, variant, d, caDates, eventDates, phaseLimitDate,
                   currentProcessingDate, lastDateToFill, safetyCounter>>

\* dateUtils.ts 716-747: the next phase's window and its assessment/event dates.
TaggedEnterPhase ==
    /\ pc = "phase" /\ variant = "tagged" /\ phaseIdx <= Len(config.cas)
    /\ LET ca == config.cas[phaseIdx]
           limit == phaseLimit(currentPhasePointer, ca)
           w == workingDaysInPhase(currentPhasePointer, limit)
       IN  /\ phaseLimitDate' = limit
           /\ caDates' = taggedCaDates(w, ca)
           /\ eventDates' = taggedEventDates(w, ca)
    /\ d' = currentPhasePointer
    /\ pc' = "fill"
    /\ UNCHANGED appVars /\ UNCHANGED <<config, variant, rows, subjectLUCounters, phaseIdx, currentPhasePointer,
                   currentProcessingDate, lastDateToFill, safetyCounter>>

\* dateUtils.ts 750-755: one iteration of the loop over the phase window.
TaggedFillDay ==
    /\ pc = "fill" /\ variant = "tagged"
    /\ inWindow(d, phaseLimitDate)
    /\ LET ca == config.cas[phaseIdx]
           res == addDay(d, dayType(d, caDates, eventDates), ca.id, ca, subjectLUCounters)
       IN  rows' = Append(rows, res.row) /\ subjectLUCounters' = res.counters
    /\ d' = addDays(d, 1)
    /\ UNCHANGED appVars /\ UNCHANGED <<config, variant, pc, phaseIdx, caDates, eventDates, currentPhasePointer,
                   phaseLimitDate, currentProcessingDate, lastDateToFill, safetyCounter>>

\* dateUtils.ts 757-758: the cursor moves to the window's end.
TaggedLeavePhase ==
    /\ pc = "fill" /\ variant = "tagged"
    /\ ~inWindow(d, phaseLimitDate)
    /\ currentPhasePointer' = phaseLimitDate
    /\ IF isAfter(phaseLimitDate, end)
       THEN pc' = "final" /\ d' = phaseLimitDate /\ UNCHANGED phaseIdx
       ELSE pc' = "phase" /\ phaseIdx' = phaseIdx + 1 /\ UNCHANGED d
    /\ UNCHANGED appVars /\ UNCHANGED <<config, variant, rows, subjectLUCounters, caDates, eventDates,
                   phaseLimitDate, currentProcessingDate, lastDateToFill, safetyCounter>>

\* dateUtils.ts 716, 762: the phases are exhausted; the final fill starts.
TaggedEnterFinal ==
    /\ pc = "phase" /\ variant = "tagged" /\ phaseIdx > Len(config.cas)
    /\ pc' = "final" /\ d' = currentPhasePointer
    /\ UNCHANGED appVars /\ UNCHANGED <<config, variant, rows, subjectLUCounters, phaseIdx, caDates, eventDates,
                   currentPhasePointer, phaseLimitDate, currentProcessingDate, lastDateToFill,
                   safetyCounter>>

\* One iteration of the final fill, materializing the date as `type`.
TaggedFinalStep(type) ==
    /\ pc = "final" /\ variant = "tagged" /\ ~isAfter(d, end)
    /\ LET res == addDay(d, type, "post-ca-phase", NoPhase, subjectLUCounters)
       IN  rows' = Append(rows, res.row) /\ subjectLUCounters' = res.counters
    /\ d' = addDays(d, 1)
    /\ UNCHANGED appVars /\ UNCHANGED <<config, variant, pc, phaseIdx, caDates, eventDates, currentPhasePointer,
                   phaseLimitDate, currentProcessingDate, lastDateToFill, safetyCounter>>

\* A mistaken final fill: the trailing dates go on being assessment days.
TaggedFinalDayAsAssessment == TaggedFinalStep("ca")

\* dateUtils.ts 762-764: addDay(d, 'normal', 'post-ca-phase').
TaggedFinalDay == TaggedFinalStep("normal")

\* dateUtils.ts 766: return rows.
TaggedReturn ==
    /\ pc = "final" /\ variant = "tagged" /\ isAfter(d, end)
    /\ pc' = "done"
    /\ UNCHANGED appVars /\ UNCHANGED <<config, variant, rows, subjectLUCounters, phaseIdx, d, caDates, eventDates,
                   currentPhasePointer, phaseLimitDate, currentProcessingDate, lastDateToFill,
                   safetyCounter>>

\* part_001 279-289, 366-368: the guards, then the cursor at the term start.
SafeBegin ==
    /\ pc = "start" /\ variant = "safe"
    /\ IF config.startDate.k = "empty" \/ config.endDate.k = "empty"
          \/ ~isValid(parseISO(config.startDate)) \/ ~isValid(parseISO(config.endDate))
          \/ isAfter(start, end) \/ isAfter(start, addYears(start, 5))
       THEN pc' = "done" /\ UNCHANGED <<currentProcessingDate, phaseIdx>>
       ELSE pc' = "phase" /\ currentProcessingDate' = start /\ phaseIdx' = 1
    /\ rows' = <<>> /\ subjectLUCounters' = EmptyMap /\ safetyCounter' = 0
    /\ UNCHANGED appVars /\ UNCHANGED <<config, variant, d, caDates, eventDates, currentPhasePointer,
                   phaseLimitDate, lastDateToFill>>

\* part_001 370-383: the next phase's dates and its assessment/event dates.
SafeEnterPhase ==
    /\ pc = "phase" /\ variant = "safe" /\ phaseIdx <= Len(config.cas)
    /\ IF safetyCounter > MAX_DAYS
       THEN pc' = "final" /\ UNCHANGED <<caDates, eventDates, lastDateToFill, d>>
       ELSE LET ca == config.cas[phaseIdx]
                pd == phaseDates(currentProcessingDate, ca)
                w == workingInPhase(currentProcessingDate, ca)
            IN  /\ caDates' = safeCaDates(w, ca)
                /\ eventDates' = safeEventDates(w, ca)
                /\ lastDateToFill' = IF Len(pd) > 0 THEN pd[Len(pd)] ELSE currentProcessingDate
                /\ d' = currentProcessingDate
                /\ pc' = "fill"
    /\ UNCHANGED appVars /\ UNCHANGED <<config, variant, rows, subjectLUCounters, phaseIdx, currentPhasePointer,
                   phaseLimitDate, currentProcessingDate, safetyCounter>>

\* part_001 384-391: one iteration of the loop over the phase's dates;
\* addDayToSchedule returning false (date after end) breaks out of it.
SafeFillDay ==
    /\ pc = "fill" /\ variant = "safe"
    /\ ~isAfter(d, lastDateToFill) /\ safetyCounter < MAX_DAYS
    /\ IF isAfter(d, end)
       THEN /\ currentProcessingDate' = d /\ phaseIdx' = phaseIdx + 1 /\ pc' = "phase"
            /\ UNCHANGED <<rows, subjectLUCounters, d, safetyCounter>>
       ELSE /\ LET ca == config.cas[phaseIdx]
                   res == addDayToSchedule(d, dayType(d, caDates, eventDates), ca, subjectLUCounters)
               IN  rows' = Append(rows, res.row) /\ subjectLUCounters' = res.counters
            /\ d' = addDays(d, 1)
            /\ safetyCounter' = safetyCounter + 1
            /\ UNCHANGED <<currentProcessingDate, phaseIdx, pc>>
    /\ UNCHANGED appVars /\ UNCHANGED <<config, variant, caDates, eventDates, currentPhasePointer, phaseLimitDate,
                   lastDateToFill>>

\* part_001 384, 392: the loop ends; the cursor is the first date not filled.
SafeLeavePhase ==
    /\ pc = "fill" /\ variant = "safe"
    /\ ~(~isAfter(d, lastDateToFill) /\ safetyCounter < MAX_DAYS)
    /\ currentProcessingDate' = d /\ phaseIdx' = phaseIdx + 1 /\ pc' = "phase"
    /\ UNCHANGED appVars /\ UNCHANGED <<config, variant, rows, subjectLUCounters, d, caDates, eventDates,
                   currentPhasePointer, phaseLimitDate, lastDateToFill, safetyCounter>>

\* part_001 370, 394: the phases are exhausted; the final fill starts.
SafeEnterFinal ==
    /\ pc = "phase" /\ variant = "safe" /\ phaseIdx > Len(config.cas)
    /\ pc' = "final"
    /\ UNCHANGED appVars /\ UNCHANGED <<config, variant, rows, subjectLUCounters, phaseIdx, d, caDates, eventDates,
                   currentPhasePointer, phaseLimitDate, currentProcessingDate, lastDateToFill,
                   safetyCounter>>

\* part_001 394-398: one iteration of the final fill.
SafeFinalDay ==
    /\ pc = "final" /\ variant = "safe"
    /\ (isBefore(currentProcessingDate, end) \/ isSameDay(currentProcessingDate, end))
    /\ safetyCounter < MAX_DAYS
    /\ LET res == addDayToSchedule(currentProcessingDate, "normal", NoPhase, subjectLUCounters)
       IN  rows' = Append(rows, res.row) /\ subjectLUCounters' = res.counters
    /\ currentProcessingDate' = addDays(currentProcessingDate, 1)
    /\ safetyCounter' = safetyCounter + 1
    /\ UNCHANGED appVars /\ UNCHANGED <<config, variant, pc, phaseIdx, d, caDates, eventDates, currentPhasePointer,
                   phaseLimitDate, lastDateToFill>>

\* part_001 399: return rows.
SafeReturn ==
    /\ pc = "final" /\ variant = "safe"
    /\ ~((isBefore(currentProcessingDate, end) \/ isSameDay(currentProcessingDate, end))
         /\ safetyCounter < MAX_DAYS)
    /\ pc' = "done"
    /\ UNCHANGED appVars /\ UNCHANGED <<config, variant, rows, subjectLUCounters, phaseIdx, d, caDates, eventDates,
                   currentPhasePointer, phaseLimitDate, currentProcessingDate, lastDateToFill,
                   safetyCounter>>

(* ---------------------------- program totals -------------------------- *)
\* label.endsWith(' - completed'), for a label given by its parts: of the
\* labels the generator writes only <name, ' - completed'> ends so (the last
\* part of an LU label is a number).
endsWithCompleted(label) == Len(label) = 2 /\ label[2] = " - completed"

\* Object.values(row.slotMappings).some(m => m.type === 'subject' &&
\* !m.label.endsWith(' - completed'))
hasSubject(row) ==
    \E slotId \in DOMAIN row.slotMappings :
        row.slotMappings[slotId].type = "subject" /\ ~endsWithCompleted(row.slotMappings[slotId].label)

\* The rows of the schedule with the status, as schedule.forEach meets them.
rowsWithStatus(schedule, status) == {k \in 1..Len(schedule) : schedule[k].status = status}

\* A mistaken count: an event day is counted as a working day as well.
calculateProgramStatsEventsWork(schedule) ==
    [totalDays |-> Len(schedule),
     restSaturdays |-> Cardinality({k \in rowsWithStatus(schedule, "weekend") : schedule[k].dayName = "Saturday"}),
     restSundays |-> Cardinality({k \in rowsWithStatus(schedule, "weekend") : schedule[k].dayName = "Sunday"}),
     restDaysTotal |-> Cardinality(rowsWithStatus(schedule, "weekend")),
     holidays |-> Cardinality(rowsWithStatus(schedule, "holiday")),
     assessmentDays |-> Cardinality(rowsWithStatus(schedule, "ca")),
     eventDays |-> Cardinality(rowsWithStatus(schedule, "event")),
     workingDays |-> Cardinality(rowsWithStatus(schedule, "working") \cup rowsWithStatus(schedule, "event")),
     learningDays |-> Cardinality({k \in rowsWithStatus(schedule, "working") : hasSubject(schedule[k])})]

\* calculateProgramStats of dateUtils.ts 565-595: one pass over the schedule
\* that only reads the rows and counts them by status.
calculateProgramStats(schedule) ==
    [totalDays |-> Len(schedule),
     restSaturdays |-> Cardinality({k \in rowsWithStatus(schedule, "weekend") : schedule[k].dayName = "Saturday"}),
     restSundays |-> Cardinality({k \in rowsWithStatus(schedule, "weekend") : schedule[k].dayName = "Sunday"}),
     restDaysTotal |-> Cardinality(rowsWithStatus(schedule, "weekend")),
     holidays |-> Cardinality(rowsWithStatus(schedule, "holiday")),
     assessmentDays |-> Cardinality(rowsWithStatus(schedule, "ca")),
     eventDays |-> Cardinality(rowsWithStatus(schedule, "event")),
     workingDays |-> Cardinality(rowsWithStatus(schedule, "working")),
     learningDays |-> Cardinality({k \in rowsWithStatus(schedule, "working") : hasSubject(schedule[k])})]

\* App.tsx 640: programStats = useMemo(() => calculateProgramStats(
\* masterSchedule), [masterSchedule]), computed once the schedule is returned.
ComputeProgramStats ==
    /\ pc = "done" /\ programStats = <<>>
    /\ programStats' = calculateProgramStats(rows)
    /\ UNCHANGED <<returned, importVars, excelVars>>
    /\ UNCHANGED <<config, variant, pc, rows, subjectLUCounters, phaseIdx, d, caDates, eventDates,
                   currentPhasePointer, phaseLimitDate, currentProcessingDate, lastDateToFill,
                   safetyCounter>>

Next ==
    \/ TaggedBegin \/ TaggedEnterPhase \/ TaggedFillDay \/ TaggedLeavePhase
    \/ TaggedEnterFinal \/ TaggedFinalDay \/ TaggedReturn
    \/ SafeBegin \/ SafeEnterPhase \/ SafeFillDay \/ SafeLeavePhase
    \/ SafeEnterFinal \/ SafeFinalDay \/ SafeReturn
    \/ ComputeProgramStats

Spec == Init /\ [][Next]_vars

(* --------------------------- repeated calls ---------------------------- *)
\* The configurations the application generates from, one after another.
SessionConfigs ==
    {Cfg(Iso(0), Iso(8), MonToFri, <<>>, <<Phase(1, 1, 1, 1)>>, <<SubjectA(3), SubjectB(0)>>, FixedPattern),
     Cfg(Iso(0), Iso(8), MonToFri, SomeHolidays, <<Phase(1, 1, 1, 1)>>, <<SubjectA(2), SubjectB(1)>>, FixedPattern),
     Cfg(Iso(3), Iso(8), MonWedSat, <<>>, <<>>, <<SubjectA(3), SubjectB(0)>>, FixedPattern)}

InitSession ==
    /\ config \in SessionConfigs
    /\ variant \in {"tagged", "safe"}
    /\ pc = "start"
    /\ rows = <<>>
    /\ subjectLUCounters = EmptyMap
    /\ phaseIdx = 0
    /\ d = 0
    /\ caDates = <<>>
    /\ eventDates = <<>>
    /\ currentPhasePointer = 0
    /\ phaseLimitDate = 0
    /\ currentProcessingDate = 0
    /\ lastDateToFill = 0
    /\ safetyCounter = 0
    /\ AppIdle

\* App.tsx 638: masterSchedule = useMemo(() => generateMasterSchedule(config),
\* [config]).  The finished call's result is noted, and the generator is called
\* again with some configuration; what the finished call left in its locals
\* is still lying about when the next call begins; the memoized totals of the
\* previous schedule are dropped (App.tsx 640, dependency [masterSchedule]).
CallAgain ==
    /\ pc = "done"
    /\ returned' = IF <<variant, config>> \in DOMAIN returned THEN returned
                   ELSE (<<variant, config>> :> rows) @@ returned
    /\ config' \in SessionConfigs
    /\ variant' \in {"tagged", "safe"}
    /\ pc' = "start"
    /\ programStats' = <<>>
    /\ UNCHANGED <<importVars, excelVars>>
    /\ UNCHANGED <<rows, subjectLUCounters, phaseIdx, d, caDates, eventDates, currentPhasePointer,
                   phaseLimitDate, currentProcessingDate, lastDateToFill, safetyCounter>>

NextSession == Next \/ CallAgain

SpecSession == InitSession /\ [][NextSession]_vars

(* ------------------------------- import -------------------------------- *)
MaxUploads == 2

\* The sheets parseExcelImport reads that set fields of the configuration, in
\* the order it reads them (sheets 8 and 9 fill id fields of the subjects of
\* sheet 2 only).
SheetOrder ==
    <<"1. Settings", "2. Subjects", "7. Modules", "3. Slots", "4. Weekly Pattern", "5. Holidays", "6. Assessments">>

\* Files: readable or not; throwsAt = 0 when XLSX.read throws, k when an
\* exception is raised while the k-th sheet of SheetOrder is converted,
\* Len(SheetOrder) + 1 when none is raised; sheets are the sheets present.
SheetSets ==
    {{}, {"1. Settings"}, {"2. Subjects", "7. Modules", "4. Weekly Pattern"},
     {"1. Settings", "2. Subjects", "7. Modules", "3. Slots", "4. Weekly Pattern", "5. Holidays", "6. Assessments"}}

Files ==
    [readable : BOOLEAN, throwsAt : 0..(Len(SheetOrder) + 1), sheets : SheetSets]

\* Math.random().toString(36).substr(2, 9): the ids one import draws.
FreshIds == {[subject |-> "A", module |-> "m9", holiday |-> "h9", ca |-> "p1"],
             [subject |-> "k3x", module |-> "q7", holiday |-> "z1", ca |-> "w5"]}

\* The effect of one sheet on reader.onload's local config object.
applySheet(sheet, local, ids) ==
    CASE sheet = "1. Settings" ->
            [startDate |-> Iso(3), endDate |-> Iso(8), workingDays |-> MonWedSat] @@ local
      [] sheet = "2. Subjects" ->
            [subjects |-> <<[id |-> ids.subject, name |-> "Applied Physics", totalLUs |-> 2, color |-> "#6366f1",
                             modules |-> <<>>, courseId |-> "", courseIdMap |-> EmptyMap]>>] @@ local
      [] sheet = "7. Modules" ->
            IF "subjects" \in DOMAIN local
            THEN [local EXCEPT !.subjects[1].modules =
                     Append(@, [id |-> ids.module, name |-> "Module 1", startLU |-> 1, endLU |-> 1, color |-> "#ef4444"])]
            ELSE local
      [] sheet = "3. Slots" -> [slots |-> <<[id |-> "s0"]>>] @@ local
      [] sheet = "4. Weekly Pattern" ->
            [weeklyPattern |->
                [dn \in {"Monday"} |->
                    IF "slots" \in DOMAIN local
                    THEN ("s0" :> (IF "subjects" \in DOMAIN local THEN local.subjects[1].id ELSE ""))
                    ELSE EmptyMap]] @@ local
      [] sheet = "5. Holidays" -> [holidays |-> <<[id |-> ids.holiday, date |-> Iso(4), reason |-> "Holiday"]>>] @@ local
      [] sheet = "6. Assessments" ->
            [cas |-> <<[id |-> ids.ca, label |-> "CA1", weekOrder |-> 1, duration |-> 1, eventDays |-> 0]>>] @@ local

\* The local config object after the first k sheets of SheetOrder.
RECURSIVE parsedUpTo(_, _, _)
parsedUpTo(f, k, ids) ==
    IF k = 0 THEN EmptyMap
    ELSE IF SheetOrder[k] \in f.sheets THEN applySheet(SheetOrder[k], parsedUpTo(f, k - 1, ids), ids)
    ELSE parsedUpTo(f, k - 1, ids)

\* setConfig(prev => ({...prev, ...importedData, subjects: importedData.subjects
\* || prev.subjects, ...})): an imported field replaces the previous one.
mergeImported(prev, importedData) ==
    [field \in DOMAIN prev \cup DOMAIN importedData |->
        IF field \in DOMAIN importedData THEN importedData[field] ELSE prev[field]]

\* A mistaken catch branch: what reader.onload had parsed before the exception
\* is merged all the same.
mergeWhatWasParsed(prev, importedData) == mergeImported(prev, importedData)

\* The catch branch leaves the configuration alone.
keepPrevious(prev, importedData) == prev

\* The generator is not running while a file is imported.
callLocals == <<variant, pc, rows, subjectLUCounters, phaseIdx, d, caDates, eventDates,
                currentPhasePointer, phaseLimitDate, currentProcessingDate, lastDateToFill,
                safetyCounter, returned, programStats, excelVars>>

InitImport ==
    /\ config \in SessionConfigs
    /\ variant = "tagged"
    /\ pc = "start"
    /\ rows = <<>>
    /\ subjectLUCounters = EmptyMap
    /\ phaseIdx = 0
    /\ d = 0
    /\ caDates = <<>>
    /\ eventDates = <<>>
    /\ currentPhasePointer = 0
    /\ phaseLimitDate = 0
    /\ currentProcessingDate = 0
    /\ lastDateToFill = 0
    /\ safetyCounter = 0
    /\ returned = <<>>
    /\ programStats = <<>>
    /\ ExcelIdle
    /\ ImportIdle
    /\ parserVersion \in {"current", "withOnError"}

\* App.tsx 673-675: a file is chosen (with no file the handler returns at
\* once); loading is set and the import is put off by a timer.
ChooseFile ==
    /\ importPc = "idle" /\ uploads < MaxUploads
    /\ \E f \in Files : file' = f
    /\ loading' = TRUE
    /\ importPc' = "scheduled"
    /\ promise' = "none"
    /\ localConfig' = EmptyMap
    /\ configAtUpload' = config
    /\ uploads' = uploads + 1
    /\ UNCHANGED <<config, alerts, parserVersion>> /\ UNCHANGED callLocals

\* App.tsx 676-678, dateUtils.ts 817-819 and 946: the timer fires, the handler
\* calls parseExcelImport, which starts the reader and returns a pending
\* promise; the handler awaits it.
TimerFires ==
    /\ importPc = "scheduled"
    /\ promise' = "pending"
    /\ importPc' = "reading"
    /\ UNCHANGED <<config, loading, file, localConfig, alerts, configAtUpload, uploads, parserVersion>>
    /\ UNCHANGED callLocals

\* dateUtils.ts 819-945: the file was read; reader.onload parses it and
\* resolves with the local config, or rejects on the first exception.
ReaderLoad ==
    /\ importPc = "reading" /\ file.readable
    /\ \E ids \in FreshIds :
         localConfig' = parsedUpTo(file, Min(Max(file.throwsAt - 1, 0), Len(SheetOrder)), ids)
    /\ promise' = IF file.throwsAt <= Len(SheetOrder) THEN "rejected" ELSE "resolved"
    /\ importPc' = "settled"
    /\ UNCHANGED <<config, loading, file, alerts, configAtUpload, uploads, parserVersion>>
    /\ UNCHANGED callLocals

\* The file could not be read: the reader fires its error event.  The
\* parseExcelImport of dateUtils.ts 816-948 sets no reader.onerror, so nothing
\* runs; that of dateUtils.ts 395-502 (part_001 463-610) rejects the promise.
ReaderError ==
    /\ importPc = "reading" /\ ~file.readable
    /\ IF parserVersion = "withOnError"
       THEN promise' = "rejected" /\ importPc' = "settled"
       ELSE promise' = promise /\ importPc' = "readFailed"
    /\ UNCHANGED <<config, loading, file, localConfig, alerts, configAtUpload, uploads, parserVersion>>
    /\ UNCHANGED callLocals

\* App.tsx 678-686 and 690-693: the await returns the imported data, which is
\* merged into the configuration; finally loading is cleared.
ImportResolved ==
    /\ importPc = "settled" /\ promise = "resolved"
    /\ config' = mergeImported(config, localConfig)
    /\ loading' = FALSE
    /\ importPc' = "idle"
    /\ UNCHANGED <<file, promise, localConfig, alerts, configAtUpload, uploads, parserVersion>>
    /\ UNCHANGED callLocals

\* App.tsx 687-693: the await throws; the error is logged and one alert is
\* shown; finally loading is cleared.
ImportRejected ==
    /\ importPc = "settled" /\ promise = "rejected"
    /\ config' = keepPrevious(config, localConfig)
    /\ alerts' = alerts + 1
    /\ loading' = FALSE
    /\ importPc' = "idle"
    /\ UNCHANGED <<file, promise, localConfig, configAtUpload, uploads, parserVersion>>
    /\ UNCHANGED callLocals

NextImport ==
    \/ ChooseFile \/ TimerFires \/ ReaderLoad \/ ReaderError \/ ImportResolved \/ ImportRejected

\* The browser runs a timer that is due, delivers the reader's event and runs
\* the continuation of a settled promise; the user need not choose a file.
SpecImport ==
    /\ InitImport /\ [][NextImport]_vars
    /\ WF_vars(TimerFires) /\ WF_vars(ReaderLoad) /\ WF_vars(ReaderError)
    /\ WF_vars(ImportResolved) /\ WF_vars(ImportRejected)

(* --------------------------- spreadsheet dates ------------------------- *)
\* Time is counted in quarter hours.
QuartersPerDay == 96

\* The 43200000 ms added to a serial value: half a day.
HalfDayQuarters == 48

\* if (hours >= 20) snappedDate = addDays(val, 1)
SnapHour == 20

\* The serial number of day 0 of the calendar used here (Monday 2025-01-06).
SerialOfDayZero == 45663

\* excelEpoch = new Date(1899, 11, 30): local midnight of serial day 0.
ExcelEpochDay == 0 - SerialOfDayZero

MaxSerialDays == 2

\* The times of day tried, in quarter hours: the multiples of 45 minutes, which
\* are the binary fractions of a day, so that val * 86400000 is exact.
SerialTimes == {3 * j : j \in 0..31}

SerialDays == (0..(MaxSerialDays - 1)) \cup {SerialOfDayZero + i : i \in 0..(MaxSerialDays - 1)}

\* The offset differences tried: none, an hour either way.
OffsetDrifts == {0 - 4, 0, 4}

\* Cell values: null or '', a Date (valid: local day and time of day; or
\* invalid), a number (serial day and time of day), and texts: blank, starting
\* with YYYY-MM-DD, D/M/YYYY, another form parseISO accepts, anything else.
ExcelCells ==
    {[k |-> "null", day |-> 0, q |-> 0], [k |-> "InvalidDate", day |-> 0, q |-> 0],
     [k |-> "blankText", day |-> 0, q |-> 0], [k |-> "otherText", day |-> 0, q |-> 0]}
    \cup {[k |-> "Date", day |-> n, q |-> t] : n \in 0..(MaxSerialDays - 1), t \in SerialTimes}
    \cup {[k |-> "number", day |-> n, q |-> t] : n \in SerialDays, t \in SerialTimes}
    \cup {[k |-> form, day |-> n, q |-> 0] : form \in {"isoText", "dmyText", "basicIsoText"}, n \in 0..(MaxSerialDays - 1)}

\* parseExcelDate of dateUtils.ts 522-550.  A falsy value (0 among them) and an
\* invalid Date give ''; a Date is moved to the next day from 20:00 on; a number
\* becomes the local date of epoch + val days + 12 hours; a text is cut,
\* rearranged or parsed, and returned as it is when nothing fits.
parseExcelDate(val, zone) ==
    CASE val.k \in {"null", "InvalidDate", "blankText"} -> EmptyString
      [] val.k = "Date" ->
            formatDate(IF val.q \div 4 >= SnapHour THEN addDays(val.day, 1) ELSE val.day)
      [] val.k = "number" ->
            IF val.day = 0 /\ val.q = 0 THEN EmptyString
            ELSE formatDate((ExcelEpochDay * QuartersPerDay + val.day * QuartersPerDay + val.q
                             + HalfDayQuarters + zone) \div QuartersPerDay)
      [] val.k \in {"isoText", "dmyText", "basicIsoText"} -> formatDate(val.day)
      [] OTHER -> Garbage

InitExcel ==
    /\ config = CHOOSE c \in SessionConfigs : TRUE
    /\ variant = "tagged"
    /\ pc = "start"
    /\ rows = <<>>
    /\ subjectLUCounters = EmptyMap
    /\ phaseIdx = 0
    /\ d = 0
    /\ caDates = <<>>
    /\ eventDates = <<>>
    /\ currentPhasePointer = 0
    /\ phaseLimitDate = 0
    /\ currentProcessingDate = 0
    /\ lastDateToFill = 0
    /\ safetyCounter = 0
    /\ returned = <<>>
    /\ programStats = <<>>
    /\ ImportIdle
    /\ parserVersion = "current"
    /\ excelCell \in ExcelCells
    /\ excelZone \in OffsetDrifts
    /\ excelDate = NotParsed

\* One call: the cell's value is converted.
ParseExcelDate ==
    /\ excelDate = NotParsed
    /\ excelDate' = parseExcelDate(excelCell, excelZone)
    /\ UNCHANGED <<excelCell, excelZone, config, returned, programStats, importVars>>
    /\ UNCHANGED <<variant, pc, rows, subjectLUCounters, phaseIdx, d, caDates, eventDates,
                   currentPhasePointer, phaseLimitDate, currentProcessingDate, lastDateToFill,
                   safetyCounter>>

NextExcel == ParseExcelDate

SpecExcel == InitExcel /\ [][NextExcel]_vars

(* ------------------- terms at the iteration ceiling -------------------- *)
\* The least number of weeks that is more than MAX_DAYS dates.
CeilingWeeks == (MAX_DAYS \div 7) + 1

\* Phase lists for long terms: none, a one-week phase, and a phase spanning the
\* whole ceiling before or after a one-week phase.
LongPhaseLists ==
    {<<>>, <<Phase(1, 1, 1, 1)>>,
     <<Phase(1, CeilingWeeks, 1, 1), Phase(2, 1, 1, 1)>>,
     <<Phase(1, 1, 1, 1), Phase(2, CeilingWeeks, 1, 1)>>}

\* Terms of MAX_DAYS - 1 to MAX_DAYS + MaxOverrun dates, and a term of six years.
LongTermConfigs ==
    {Cfg(Iso(0), Iso(n - 1), MonToFri, <<>>, cas, <<SubjectA(3), SubjectB(0)>>, FixedPattern) :
        n \in (MAX_DAYS - 1)..(MAX_DAYS + MaxOverrun), cas \in LongPhaseLists}
    \cup {Cfg(Iso(0), Iso(addYears(0, 6)), MonToFri, <<>>, cas, <<SubjectA(3), SubjectB(0)>>, FixedPattern) :
            cas \in {<<>>, <<Phase(1, 1, 1, 1)>>}}

\* Long terms, and the short terms with negative counts or invalid dates.
CeilingConfigs == LongTermConfigs \cup NegativeConfigs \cup InvalidConfigs

InitLong ==
    /\ config \in CeilingConfigs
    /\ variant = "safe"
    /\ pc = "start"
    /\ rows = <<>>
    /\ subjectLUCounters = EmptyMap
    /\ phaseIdx = 0
    /\ d = 0
    /\ caDates = <<>>
    /\ eventDates = <<>>
    /\ currentPhasePointer = 0
    /\ phaseLimitDate = 0
    /\ currentProcessingDate = 0
    /\ lastDateToFill = 0
    /\ safetyCounter = 0
    /\ AppIdle

\* A mistaken loop condition: the safety counter is not consulted.
phaseLoopConditionNoCeiling(date, last, counter) == ~isAfter(date, last)

\* part_001 384: !isAfter(d, lastDateToFill) && safetyCounter < MAX_DAYS
phaseLoopCondition(date, last, counter) == ~isAfter(date, last) /\ counter < MAX_DAYS

\* part_001 394: (isBefore(d, end) || isSameDay(d, end)) && safetyCounter < MAX_DAYS
finalLoopCondition(date, counter) == (isBefore(date, end) \/ isSameDay(date, end)) /\ counter < MAX_DAYS

\* part_001 384, 388: the while loop over a phase's dates goes on, in the loop
\* state st = [rows, counters, d, safetyCounter]: its condition holds and
\* addDayToSchedule does not return false (the date is not after end).
safePhaseContinues(st) ==
    phaseLoopCondition(st.d, lastDateToFill, st.safetyCounter) /\ ~isAfter(st.d, end)

\* part_001 384-391: one pass through the while loop over a phase's dates; st
\* itself once the loop has ended.
safePhaseBody(st, ca) ==
    IF safePhaseContinues(st)
    THEN LET res == addDayToSchedule(st.d, dayType(st.d, caDates, eventDates), ca, st.counters)
         IN  [rows |-> Append(st.rows, res.row), counters |-> res.counters,
              d |-> addDays(st.d, 1), safetyCounter |-> st.safetyCounter + 1]
    ELSE st

\* part_001 394-398: one pass through the final while loop.
safeFinalBody(st) ==
    IF finalLoopCondition(st.d, st.safetyCounter)
    THEN LET res == addDayToSchedule(st.d, "normal", NoPhase, st.counters)
         IN  [rows |-> Append(st.rows, res.row), counters |-> res.counters,
              d |-> addDays(st.d, 1), safetyCounter |-> st.safetyCounter + 1]
    ELSE st

RECURSIVE repeatPhaseBody(_, _, _)
\* Up to k passes through the phase loop.
repeatPhaseBody(st, ca, k) ==
    IF k <= 0 \/ ~safePhaseContinues(st) THEN st
    ELSE IF k = 1 THEN safePhaseBody(st, ca)
    ELSE repeatPhaseBody(repeatPhaseBody(st, ca, k \div 2), ca, k - (k \div 2))

RECURSIVE repeatFinalBody(_, _)
\* Up to k passes through the final loop.
repeatFinalBody(st, k) ==
    IF k <= 0 \/ ~finalLoopCondition(st.d, st.safetyCounter) THEN st
    ELSE IF k = 1 THEN safeFinalBody(st)
    ELSE repeatFinalBody(repeatFinalBody(st, k \div 2), k - (k \div 2))

\* Every pass that pushes a record moves the date one day towards end, so a
\* loop entered at `date` makes at most this many passes.
passesLeft(date) == Max(differenceInDays(end, date) + 1, 0)

\* part_001 384-392: the whole while loop of a phase, then the cursor update.
SafeRunPhase ==
    /\ pc = "fill" /\ variant = "safe"
    /\ LET ca == config.cas[phaseIdx]
           st == repeatPhaseBody([rows |-> rows, counters |-> subjectLUCounters, d |-> d,
                                  safetyCounter |-> safetyCounter], ca, passesLeft(d))
       IN  /\ ~safePhaseContinues(st)
           /\ rows' = st.rows /\ subjectLUCounters' = st.counters
           /\ d' = st.d /\ safetyCounter' = st.safetyCounter
           /\ currentProcessingDate' = st.d
    /\ phaseIdx' = phaseIdx + 1 /\ pc' = "phase"
    /\ UNCHANGED appVars /\ UNCHANGED <<config, variant, caDates, eventDates, currentPhasePointer, phaseLimitDate,
                   lastDateToFill>>

\* part_001 394-399: the whole final loop, then return rows.
SafeRunFinal ==
    /\ pc = "final" /\ variant = "safe"
    /\ LET st == repeatFinalBody([rows |-> rows, counters |-> subjectLUCounters,
                                  d |-> currentProcessingDate, safetyCounter |-> safetyCounter],
                                 passesLeft(currentProcessingDate))
       IN  /\ ~finalLoopCondition(st.d, st.safetyCounter)
           /\ rows' = st.rows /\ subjectLUCounters' = st.counters
           /\ currentProcessingDate' = st.d /\ safetyCounter' = st.safetyCounter
    /\ pc' = "done"
    /\ UNCHANGED appVars /\ UNCHANGED <<config, variant, phaseIdx, d, caDates, eventDates, currentPhasePointer,
                   phaseLimitDate, lastDateToFill>>

\* The safety-counter variant with each loop of dates taken as one step.
NextSafe ==
    \/ SafeBegin \/ SafeEnterPhase \/ SafeRunPhase \/ SafeEnterFinal \/ SafeRunFinal

SpecLong == InitLong /\ [][NextSafe]_vars

(* ------------------------------ statistics ----------------------------- *)
\* A mistaken count: the slots of holidays, rest days and assessment days that
\* the weekly pattern gives to the subject are counted as available too.
availableForAnyStatus(subject, schedule) ==
    {ks \in (1..Len(schedule)) \X {config.slots[i].id : i \in 1..Len(config.slots)} :
        /\ ks[2] \in DOMAIN schedule[ks[1]].slotMappings
        /\ patternLookup(schedule[ks[1]].dayName, ks[2]) = subject.id}

\* The (row, slot) pairs calculateUtilizationStats counts as available for a
\* subject: working day, and the weekly pattern gives the slot to the subject.
availableFor(subject, schedule) ==
    {ks \in (1..Len(schedule)) \X {config.slots[i].id : i \in 1..Len(config.slots)} :
        /\ schedule[ks[1]].status = "working"
        /\ ks[2] \in DOMAIN schedule[ks[1]].slotMappings
        /\ patternLookup(schedule[ks[1]].dayName, ks[2]) = subject.id}

\* A mistaken count: every subject occupancy of the slot's day is counted,
\* whether or not the weekly pattern gives the slot to the subject.
utilizedForAnySubject(subject, schedule) ==
    {ks \in (1..Len(schedule)) \X {config.slots[i].id : i \in 1..Len(config.slots)} :
        /\ schedule[ks[1]].status = "working"
        /\ ks[2] \in DOMAIN schedule[ks[1]].slotMappings
        /\ schedule[ks[1]].slotMappings[ks[2]].type = "subject"
        /\ ~endsWithCompleted(schedule[ks[1]].slotMappings[ks[2]].label)}

\* Those of the available pairs that are counted as utilized.
utilizedFor(subject, schedule) ==
    {ks \in availableFor(subject, schedule) :
        /\ schedule[ks[1]].slotMappings[ks[2]].type = "subject"
        /\ ~endsWithCompleted(schedule[ks[1]].slotMappings[ks[2]].label)}

\* One entry of calculateUtilizationStats.  The version of dateUtils.ts 597-621
\* (v = "tagged") reports tracked subjects only; that of part_001 90-121
\* reports every subject, an untracked one as fully utilized.
utilizationEntry(v, subject, schedule) ==
    LET availableSlots == Cardinality(availableFor(subject, schedule))
        counted == Cardinality(utilizedFor(subject, schedule))
        utilizedSlots == IF v = "safe" /\ subject.totalLUs = 0 THEN availableSlots ELSE counted
    IN  [subjectName |-> subject.name, totalTargetLUs |-> subject.totalLUs,
         availableSlots |-> availableSlots, utilizedSlots |-> utilizedSlots,
         unutilizedSlots |-> Max(0, availableSlots - utilizedSlots)]

calculateUtilizationStats(v, schedule) ==
    LET tracked(sub) == sub.totalLUs > 0
        subjects == IF v = "tagged" THEN SelectSeq(config.subjects, tracked) ELSE config.subjects
    IN  [i \in 1..Len(subjects) |-> utilizationEntry(v, subjects[i], schedule)]

\* The characters of the texts that occur as the reason of an assessment day
\* (a phase label, or 'Assessment' for a phase without one).
charsOf(text) ==
    CASE text = "" -> <<>>
      [] text = "CA" -> <<"C", "A">>
      [] text = "CA1" -> <<"C", "A", "1">>
      [] text = "CA2" -> <<"C", "A", "2">>
      [] text = "CA10" -> <<"C", "A", "1", "0">>
      [] text = "Assessment" -> <<"A", "s", "s", "e", "s", "s", "m", "e", "n", "t">>

\* The text of a reason or label given by its parts.
RECURSIVE textOf(_)
textOf(parts) == IF parts = <<>> THEN <<>> ELSE charsOf(Head(parts)) \o textOf(Tail(parts))

\* String.prototype.includes: needle occurs in hay as a contiguous run.
includes(hay, needle) ==
    \E i \in 0..(Len(hay) - Len(needle)) : SubSeq(hay, i + 1, i + Len(needle)) = needle

\* schedule.find(...)?.date || null
NoDate == [k |-> "null", day |-> 0]

\* The date of the first row with status 'ca' whose reason includes ca.label.
firstCADay(ca, schedule) ==
    LET hits == {k \in 1..Len(schedule) :
                    /\ schedule[k].status = "ca"
                    /\ includes(textOf(schedule[k].reason), charsOf(ca.label))}
    IN  IF hits = {} THEN NoDate
        ELSE schedule[CHOOSE k \in hits : \A j \in hits : k <= j].date

\* The occupancy test of the count: dateUtils.ts 638 (v = "tagged") compares
\* subjectId and excludes labels ending in 'completed'; part_001 145 requires
\* the label to start with '<name> - LU '.
countsAsCompleted(v, subject, m) ==
    /\ m.type = "subject"
    /\ IF v = "tagged"
       THEN m.subjectId = subject.id /\ ~endsWithCompleted(m.label)
       ELSE Len(m.label) = 3 /\ m.label[1] = subject.name /\ m.label[2] = " - LU "

completedBefore(v, subject, caDate, schedule) ==
    IF caDate # NoDate /\ isValid(parseISO(caDate))
    THEN Cardinality({ks \in (1..Len(schedule)) \X {config.slots[i].id : i \in 1..Len(config.slots)} :
            /\ isValid(parseISO(schedule[ks[1]].date))
            /\ isBefore(parseISO(schedule[ks[1]].date).day, parseISO(caDate).day)
            /\ ks[2] \in DOMAIN schedule[ks[1]].slotMappings
            /\ countsAsCompleted(v, subject, schedule[ks[1]].slotMappings[ks[2]])})
    ELSE 0

calculateSemesterStats(v, schedule) ==
    LET tracked(sub) == sub.totalLUs > 0
        subjects == SelectSeq(config.subjects, tracked)
        caDatesOfPhases == [i \in 1..Len(config.cas) |-> firstCADay(config.cas[i], schedule)]
    IN  [s \in 1..Len(subjects) |->
            [subjectName |-> subjects[s].name,
             phases |-> [i \in 1..Len(config.cas) |->
                 [modulePlanned |-> IF i <= Len(subjects[s].modules) THEN subjects[s].modules[i].endLU ELSE "N/A",
                  completedBeforeCA |-> completedBefore(v, subjects[s], caDatesOfPhases[i], schedule)]]]]

(* --------------------------- structured export ------------------------- *)
\* An optional text field of a subject; undefined and '' are both falsy.
optionalText(sub, field) == IF field \in DOMAIN sub THEN sub[field] ELSE ""

\* timeStr.replace(':', ''): the first colon is removed.
formatTimeForExport(timeStr) ==
    LET colons == {i \in 1..Len(timeStr) : timeStr[i] = ":"}
    IN  IF colons = {} THEN timeStr
        ELSE LET c == CHOOSE i \in colons : \A j \in colons : i <= j
             IN  SubSeq(timeStr, 1, c - 1) \o SubSeq(timeStr, c + 1, Len(timeStr))

\* (config.squadNumber || '').replace(/\s+/g, '')
squadRow == <<SelectSeq(config.squadNumber, LAMBDA part : part # " ")>>

structuredHeaders == <<"slot_number", "date", "from", "to", "course_id", "lu_id", "mentor_id">>

\* The lu_id column.
exportLuId(v, sub, m) ==
    LET luNumber == IF "luNumber" \in DOMAIN m THEN m.luNumber ELSE 0
        mapped == IF luNumber # 0 /\ "luIdMap" \in DOMAIN sub /\ luNumber \in DOMAIN sub.luIdMap
                  THEN sub.luIdMap[luNumber] ELSE ""
        defaultLuId == optionalText(sub, "defaultLuId")
    IN  IF v = "tagged"
        THEN IF luNumber # 0
             THEN (IF mapped # "" THEN <<mapped>> ELSE IF defaultLuId # "" THEN <<defaultLuId>> ELSE <<"LU_", luNumber>>)
             ELSE (IF defaultLuId # "" THEN <<defaultLuId>> ELSE <<>>)
        ELSE IF mapped # "" THEN <<mapped>>
             ELSE IF defaultLuId # "" THEN <<defaultLuId>>
             ELSE IF luNumber # 0 THEN <<"LU_", luNumber>> ELSE <<>>

\* The course_id column: dateUtils.ts 779 (v = "tagged") writes m.courseId ||
\* sub.courseId || ""; part_001 192 writes subject.courseId || subject.id.
exportCourseId(v, sub, m) ==
    IF v = "tagged"
    THEN IF "courseId" \in DOMAIN m /\ m.courseId # "" THEN m.courseId ELSE optionalText(sub, "courseId")
    ELSE IF optionalText(sub, "courseId") # "" THEN sub.courseId ELSE sub.id

\* A mistaken slot number: the position counted from 0.
slotNumberFromZero(idx) == idx - 1

\* idx + 1 for the 0-based index of forEach; idx here is the 1-based position.
slotNumber(idx) == idx

\* One iteration of slots.forEach: the data rows after the slot at position idx.
exportSlot(v, row, slots, idx, data) ==
    LET m == row.slotMappings[slots[idx].id]
    IN  IF m.type = "subject" /\ findSubject(m.subjectId) # 0
        THEN LET sub == config.subjects[findSubject(m.subjectId)]
             IN  Append(data, [slot_number |-> slotNumber(idx), date |-> row.date,
                               from |-> formatTimeForExport(slots[idx].startTime),
                               to |-> formatTimeForExport(slots[idx].endTime),
                               course_id |-> exportCourseId(v, sub, m),
                               lu_id |-> exportLuId(v, sub, m),
                               mentor_id |-> optionalText(sub, "mentorId")])
        ELSE data

RECURSIVE exportSlots(_, _, _, _, _)
exportSlots(v, row, slots, idx, data) ==
    IF idx > Len(slots) THEN data
    ELSE exportSlots(v, row, slots, idx + 1, exportSlot(v, row, slots, idx, data))

RECURSIVE exportRows(_, _, _, _, _)
exportRows(v, schedule, slots, k, data) ==
    IF k > Len(schedule) THEN data
    ELSE exportRows(v, schedule, slots, k + 1, exportSlots(v, schedule[k], slots, 1, data))

\* The sheet exportStructuredScheduleToExcel writes: the squad row, the header
\* row, and the data rows.
exportStructuredScheduleToExcel(v, schedule, slots) ==
    [squad |-> squadRow, headers |-> structuredHeaders, data |-> exportRows(v, schedule, slots, 1, <<>>)]

(* ======================================================================= *)
(* Properties                                                              *)
(* ======================================================================= *)
Done == pc = "done"

BothParsable == config.startDate.k = "iso" /\ config.endDate.k = "iso"

TermStart == config.startDate.day

TermEnd == config.endDate.day

ValidTerm == BothParsable /\ TermStart <= TermEnd

NumPhases == Len(config.cas)

RowIdx == 1..Len(rows)

RowDay(k) == rows[k].date.day

WeekdayOf(n) == DAYS_OF_WEEK[(n % 7) + 1]

ActiveWeekday(n) == WeekdayOf(n) \in config.workingDays

ConfiguredHoliday(n) == \E h \in 1..Len(config.holidays) : config.holidays[h].date = Iso(n)

OrdinaryStatus == {"working", "weekend", "holiday"}

\* What the phase windower can say of a date.
Classifications == {"normal", "ca", "event"}

\* C1: for parsable startDate <= endDate and every weekOrder >= 1, the returned
\* schedule has exactly one record per calendar date of [startDate, endDate],
\* in strictly ascending order, with no date missing or repeated.
C1_DatesAreExactlyTheTerm ==
    (Done /\ ValidTerm /\ \A i \in 1..NumPhases : config.cas[i].weekOrder >= 1)
    => /\ Len(rows) = TermEnd - TermStart + 1
       /\ \A k \in RowIdx : rows[k].date = Iso(TermStart + k - 1)

\* A returned schedule that crosses two phase windows, holidays and rest days.
C1_Witness ==
    /\ Done /\ ValidTerm /\ NumPhases = 2 /\ config.holidays # <<>>
    /\ \A i \in 1..NumPhases : config.cas[i].weekOrder >= 1
    /\ Len(rows) >= 9
    /\ \E k \in RowIdx : rows[k].status = "ca"
    /\ \E k \in RowIdx : rows[k].status = "weekend"

\* C2: every record whose date is in the holiday list has status 'holiday' and
\* carries a configured reason of that date ('Holiday' for an empty one), also
\* on a weekday that is not an active working day; and materializing a holiday
\* of the term gives 'holiday' under every classification of the windower.
C2_HolidayPrecedence ==
    /\ \A k \in RowIdx :
         ConfiguredHoliday(RowDay(k))
         => /\ rows[k].status = "holiday"
            /\ \E h \in 1..Len(config.holidays) :
                 /\ config.holidays[h].date = rows[k].date
                 /\ rows[k].reason = <<IF config.holidays[h].reason = "" THEN "Holiday" ELSE config.holidays[h].reason>>
    /\ (pc = "start" /\ ValidTerm)
       => \A n \in TermStart..TermEnd : \A type \in Classifications :
            ConfiguredHoliday(n)
            => /\ addDay(n, type, "p1", Phase(1, 1, 1, 1), EmptyMap).row.status = "holiday"
               /\ addDayToSchedule(n, type, Phase(1, 1, 1, 1), EmptyMap).row.status = "holiday"

\* A holiday on a rest day inside a phase that has assessment days, and a
\* holiday listed twice, with two reasons.
C2_Witness ==
    /\ Done /\ NumPhases >= 1 /\ config.cas[1].duration > 0
    /\ \E k \in RowIdx :
         /\ ConfiguredHoliday(RowDay(k)) /\ ~ActiveWeekday(RowDay(k))
         /\ rows[k].status = "holiday" /\ rows[k].reason = <<"Holiday">>
    /\ \E k \in RowIdx :
         /\ ConfiguredHoliday(RowDay(k))
         /\ rows[k].status = "holiday" /\ rows[k].reason = <<"Strike">>

\* C3: every record on a weekday outside config.workingDays whose date is not a
\* holiday has status 'weekend' and reason 'Rest Day'; and materializing such a
\* date gives 'weekend' under every classification of the windower.
C3_RestDayIsWeekend ==
    /\ \A k \in RowIdx :
         (~ActiveWeekday(RowDay(k)) /\ ~ConfiguredHoliday(RowDay(k)))
         => rows[k].status = "weekend" /\ rows[k].reason = <<"Rest Day">>
    /\ (pc = "start" /\ ValidTerm)
       => \A n \in TermStart..TermEnd : \A type \in Classifications :
            (~ActiveWeekday(n) /\ ~ConfiguredHoliday(n))
            => /\ addDay(n, type, "p1", Phase(1, 1, 1, 1), EmptyMap).row.status = "weekend"
               /\ addDayToSchedule(n, type, Phase(1, 1, 1, 1), EmptyMap).row.status = "weekend"

\* A rest day inside a phase window that also holds assessment and event days.
C3_Witness ==
    /\ pc = "fill" /\ rows # <<>>
    /\ ~ActiveWeekday(RowDay(Len(rows))) /\ ~ConfiguredHoliday(RowDay(Len(rows)))
    /\ rows[Len(rows)].status = "weekend"
    /\ \E k \in RowIdx : rows[k].status = "ca"
    /\ \E k \in RowIdx : rows[k].status = "event"

\* The occupancies of the schedule in schedule order and, within a record, in
\* slot-definition order.
AllOccupancies ==
    [n \in 1..(Len(rows) * Len(config.slots)) |->
        rows[((n - 1) \div Len(config.slots)) + 1].slotMappings[config.slots[((n - 1) % Len(config.slots)) + 1].id]]

OccupanciesOf(id) ==
    LET Mine(m) == m.type = "subject" /\ m.subjectId = id
    IN  SelectSeq(AllOccupancies, Mine)

RECURSIVE PhaseCursor(_)
PhaseCursor(i) ==
    IF i = 1 THEN TermStart
    ELSE LET nominal == PhaseCursor(i - 1) + 7 * config.cas[i - 1].weekOrder
         IN  IF nominal > TermEnd THEN TermEnd ELSE nominal

PhaseWindowEnd(i) == PhaseCursor(i + 1)

PhaseWindow(i) == {t \in PhaseCursor(i)..(PhaseWindowEnd(i) - 1) : t <= TermEnd}

\* The working days of the window: active weekday and not a holiday.
WindowWorking(i) == {t \in PhaseWindow(i) : ActiveWeekday(t) /\ ~ConfiguredHoliday(t)}

\* The records tagged with phase i.
RowsOf(i) == {k \in RowIdx : rows[k].phaseId = config.cas[i].id}

\* How many working days of the window are on or after t, on or before t.
FromEnd(i, t) == Cardinality({u \in WindowWorking(i) : u >= t})

FromStart(i, t) == Cardinality({u \in WindowWorking(i) : u <= t})

\* C5: (phase-tagged) when the window of a phase with duration, eventDays >= 0
\* holds at least duration + eventDays working days, the last eventDays of them
\* are 'event', the duration working days before those are 'ca', and every other
\* date of the window is an ordinary day.
C5_BlockAtWindowEnd ==
    (Done /\ variant = "tagged" /\ BothParsable)
    => \A i \in 1..NumPhases :
         LET ca == config.cas[i]
         IN  (ca.duration >= 0 /\ ca.eventDays >= 0
              /\ Cardinality(WindowWorking(i)) >= ca.duration + ca.eventDays)
             => \A t \in PhaseWindow(i) :
                  /\ \E k \in RowsOf(i) : RowDay(k) = t
                  /\ \A k \in RowsOf(i) :
                       RowDay(k) = t
                       => IF t \in WindowWorking(i) /\ FromEnd(i, t) <= ca.eventDays
                          THEN rows[k].status = "event"
                          ELSE IF t \in WindowWorking(i) /\ FromEnd(i, t) <= ca.duration + ca.eventDays
                          THEN rows[k].status = "ca"
                          ELSE rows[k].status \in OrdinaryStatus

\* The scenario of the specification: one week from a Monday, Monday to Friday
\* active, duration 2, eventDays 1: Wednesday and Thursday 'ca', Friday 'event'.
C5_Witness ==
    /\ Done /\ variant = "tagged" /\ ValidTerm /\ NumPhases >= 1
    /\ config.cas[1].duration = 2 /\ config.cas[1].eventDays = 1 /\ config.cas[1].weekOrder = 1
    /\ WeekdayOf(TermStart) = "Monday" /\ Len(rows) >= 7
    /\ rows[1].status = "working" /\ rows[2].status = "working"
    /\ rows[3].status = "ca" /\ rows[4].status = "ca" /\ rows[5].status = "event"
    /\ rows[6].status = "weekend"

RECURSIVE SafeCursor(_)
SafeCursor(i) ==
    IF i = 1 THEN TermStart
    ELSE LET c == SafeCursor(i - 1)
             n == IF config.cas[i - 1].weekOrder * 7 > 0 THEN config.cas[i - 1].weekOrder * 7 ELSE 1
         IN  IF c > TermEnd THEN c
             ELSE IF c + n > TermEnd + 1 THEN TermEnd + 1 ELSE c + n

SafeWindow(i) == SafeCursor(i)..(SafeCursor(i + 1) - 1)

\* C8: (safety-counter) a phase with eventDays = 0 gives 'event' to no date of
\* its window, and a phase with duration = 0 gives 'ca' to no date of its window.
C8_ZeroSizedBlocksAreEmpty ==
    (variant = "safe" /\ ValidTerm)
    => \A i \in 1..NumPhases :
         \A k \in RowIdx :
           RowDay(k) \in SafeWindow(i)
           => /\ config.cas[i].eventDays = 0 => rows[k].status # "event"
              /\ config.cas[i].duration = 0 => rows[k].status # "ca"

\* The half of C8 that the code keeps: no 'ca' day for duration = 0.
C8_ZeroDurationNoAssessment ==
    (variant = "safe" /\ ValidTerm)
    => \A i \in 1..NumPhases :
         \A k \in RowIdx :
           (RowDay(k) \in SafeWindow(i) /\ config.cas[i].duration = 0 /\ config.cas[i].eventDays >= 0)
           => rows[k].status # "ca"

C10_InvalidTermYieldsEmpty ==
    (Done /\ variant = "tagged" /\ ~ValidTerm) => rows = <<>>

\* The part of C10 that the code keeps: missing or unparsable dates.
C10_UnparsableYieldsEmpty ==
    (Done /\ variant = "tagged" /\ ~BothParsable) => rows = <<>>

\* C11: (safety-counter) a term whose endDate is later than startDate plus five
\* years yields the empty schedule.
C11_LongTermYieldsEmpty ==
    (Done /\ variant = "safe" /\ ValidTerm /\ isAfter(TermEnd, addYears(TermStart, 5))) => rows = <<>>

\* How many calendar dates the term has.
TermDates == TermEnd - TermStart + 1

\* How far the call has got: every step of NextSafe moves it up, and it is
\* at most 2 * NumPhases + 3.
Progress ==
    CASE pc = "start" -> 0
      [] pc = "phase" -> 2 * phaseIdx - 1
      [] pc = "fill" -> 2 * phaseIdx
      [] pc = "final" -> 2 * NumPhases + 2
      [] OTHER -> 2 * NumPhases + 3

\* The loop the call is in comes to an end.
LoopEnds ==
    /\ pc = "fill"
       => ~safePhaseContinues(repeatPhaseBody([rows |-> rows, counters |-> subjectLUCounters, d |-> d,
                                               safetyCounter |-> safetyCounter],
                                              config.cas[phaseIdx], passesLeft(d)))
    /\ pc = "final"
       => LET st == repeatFinalBody([rows |-> rows, counters |-> subjectLUCounters,
                                     d |-> currentProcessingDate, safetyCounter |-> safetyCounter],
                                    passesLeft(currentProcessingDate))
          IN  ~finalLoopCondition(st.d, st.safetyCounter)

\* C12: (safety-counter) every generation terminates (each loop ends, and every
\* step moves the call on towards its return); the schedule never has more
\* than MAX_DAYS records; what is returned for a valid term is the records of
\* its first min(MAX_DAYS, number of dates) dates, one each, in order.
C12_CeilingBoundsSchedule ==
    /\ [](variant = "safe"
          => /\ Len(rows) <= MAX_DAYS
             /\ (Done /\ ValidTerm)
                => /\ Len(rows) = Min(MAX_DAYS, TermDates)
                   /\ \A k \in RowIdx : rows[k].date = Iso(TermStart + k - 1))
    /\ [](variant = "safe" => LoopEnds)
    /\ [][variant = "safe" => Progress' > Progress]_vars

\* A term with more dates than the ceiling, whose first phase window spans the
\* ceiling: the schedule returned stops at the MAX_DAYS-th date.
C12_Witness ==
    /\ Done /\ variant = "safe" /\ ValidTerm /\ TermDates > MAX_DAYS
    /\ NumPhases = 2 /\ config.cas[1].weekOrder = CeilingWeeks
    /\ Len(rows) = MAX_DAYS
    /\ rows[MAX_DAYS].date = Iso(TermStart + MAX_DAYS - 1)

\* C13: a call for a configuration that a call has returned a schedule for
\* before returns the very same Day Record sequence, whatever calls were made
\* in between: the LU counters and the rows start empty in every call.
C13_SameConfigSameSchedule ==
    (Done /\ <<variant, config>> \in DOMAIN returned) => rows = returned[<<variant, config>>]

\* A repeated call has returned, after calls for every other configuration and
\* variant, a schedule in which a subject reached its third LU.
C13_Witness ==
    /\ Done /\ <<variant, config>> \in DOMAIN returned
    /\ Cardinality(DOMAIN returned) = 2 * Cardinality(SessionConfigs)
    /\ rows = returned[<<variant, config>>]
    /\ \E k \in RowIdx : \E sl \in DOMAIN rows[k].slotMappings :
         /\ "luNumber" \in DOMAIN rows[k].slotMappings[sl]
         /\ rows[k].slotMappings[sl].luNumber = 3

\* C14: every entry of calculateUtilizationStats, of either version, for the
\* schedule generated from the configuration has utilizedSlots +
\* unutilizedSlots = availableSlots and unutilizedSlots >= 0.
C14_UtilizationAddsUp ==
    Done => \A v \in {"tagged", "safe"} :
        \A i \in 1..Len(calculateUtilizationStats(v, rows)) :
            LET e == calculateUtilizationStats(v, rows)[i]
            IN  /\ e.utilizedSlots + e.unutilizedSlots = e.availableSlots
                /\ e.unutilizedSlots >= 0
                /\ e.utilizedSlots <= e.availableSlots

\* A returned schedule in which a tracked subject has used some of its slots
\* and has slots left over after its last LU.
C14_Witness ==
    /\ Done /\ rows # <<>>
    /\ \E i \in 1..Len(calculateUtilizationStats(variant, rows)) :
         LET e == calculateUtilizationStats(variant, rows)[i]
         IN  /\ e.totalTargetLUs > 0 /\ e.utilizedSlots = e.totalTargetLUs
             /\ e.unutilizedSlots >= 2
             /\ e.availableSlots = e.utilizedSlots + e.unutilizedSlots

\* The rows of phase i: the phase-tagged variant tags them; the safety-counter
\* variant gives the phase the dates of its window.
PhaseRows(i) ==
    IF variant = "tagged" THEN {k \in RowIdx : rows[k].phaseId = config.cas[i].id}
    ELSE {k \in RowIdx : RowDay(k) \in SafeWindow(i)}

\* The assessment days of phase i itself.
OwnAssessmentRows(i) == {k \in PhaseRows(i) : rows[k].status = "ca"}

\* The subject's LU-numbered occupancies on dates before day n.
LUOccupanciesBefore(sub, n) ==
    Cardinality({ks \in RowIdx \X {"s1", "s2"} :
        /\ RowDay(ks[1]) < n
        /\ ks[2] \in DOMAIN rows[ks[1]].slotMappings
        /\ rows[ks[1]].slotMappings[ks[2]].type = "subject"
        /\ rows[ks[1]].slotMappings[ks[2]].subjectId = sub.id
        /\ Len(rows[ks[1]].slotMappings[ks[2]].label) = 3})

TrackedSubjects == SelectSeq(config.subjects, LAMBDA sub : sub.totalLUs > 0)

\* The count C15 expects for tracked subject s and phase i.
ExpectedBeforeCA(s, i) ==
    IF OwnAssessmentRows(i) = {} THEN 0
    ELSE LUOccupanciesBefore(TrackedSubjects[s],
             RowDay(CHOOSE k \in OwnAssessmentRows(i) : \A j \in OwnAssessmentRows(i) : k <= j))

\* C15: for the schedule generated from a configuration, calculateSemesterStats
\* reports for every tracked subject and every phase i the number of the
\* subject's LU-numbered occupancies strictly before the first assessment day
\* of phase i itself, and 0 when phase i has no assessment day, whatever the
\* phase labels are.
C15_CompletedBeforeOwnAssessment ==
    (Done /\ ValidTerm) =>
        \A s \in 1..Len(TrackedSubjects) : \A i \in 1..NumPhases :
            calculateSemesterStats(variant, rows)[s].phases[i].completedBeforeCA = ExpectedBeforeCA(s, i)

\* The same for configurations whose phase labels are such that none is
\* contained in another (nor equal to another, nor empty).
DistinctLabels ==
    \A i \in 1..NumPhases : \A j \in 1..NumPhases :
        i # j => ~includes(charsOf(config.cas[j].label), charsOf(config.cas[i].label))

C15_CompletedBeforeOwnAssessmentDistinct ==
    (Done /\ ValidTerm /\ DistinctLabels) =>
        \A s \in 1..Len(TrackedSubjects) : \A i \in 1..NumPhases :
            calculateSemesterStats(variant, rows)[s].phases[i].completedBeforeCA = ExpectedBeforeCA(s, i)

RosterIds == {config.subjects[i].id : i \in 1..Len(config.subjects)}

SlotIds == {config.slots[i].id : i \in 1..Len(config.slots)}

\* The slot's weekly-pattern entry on the day of row r names no subject of the
\* roster (or there is no entry).
Dangling(r, slotId) == patternLookup(r.dayName, slotId) \notin RosterIds

\* The occupancies of row r that advance the LU counter of subject id x.
CountedOccupancies(r, x) ==
    {slotId \in DOMAIN r.slotMappings :
        /\ r.slotMappings[slotId].type = "subject"
        /\ r.slotMappings[slotId].subjectId = x
        /\ Len(r.slotMappings[slotId].label) > 1}

\* C16: a slot of a working day whose pattern entry is missing or names an id
\* that is not in the roster gets an 'empty' occupancy, the Day Record is
\* produced with an occupancy for every slot, and the step that produces it
\* advances the LU counters by the row's LU-tracked occupancies only (none for
\* an id outside the roster); an occupancy whose LU number lies in none of the
\* subject's module ranges is of kind 'subject' with the subject's base colour.
C16_DanglingReferencesAreEmpty ==
    /\ [](\A k \in RowIdx :
            /\ DOMAIN rows[k].slotMappings = SlotIds
            /\ \A slotId \in SlotIds :
                 LET m == rows[k].slotMappings[slotId]
                 IN  /\ (rows[k].status = "working" /\ Dangling(rows[k], slotId))
                            => m = [type |-> "empty", label |-> <<>>]
                     /\ ("luNumber" \in DOMAIN m /\ findModule(config.subjects[findSubject(m.subjectId)], m.luNumber) = 0)
                            => m.type = "subject" /\ m.color = config.subjects[findSubject(m.subjectId)].color)
    /\ [](DOMAIN subjectLUCounters \subseteq RosterIds)
    /\ [][Len(rows') = Len(rows) + 1 =>
            \A x \in RosterIds \cup DOMAIN subjectLUCounters' :
                counterOf(subjectLUCounters', x) - counterOf(subjectLUCounters, x)
                    = Cardinality(CountedOccupancies(rows'[Len(rows')], x))]_vars

\* A Wednesday record with both dangling slots (s1 names "G", s2 has no entry)
\* next to records that advanced Algebra to LU 3, which is in no module range.
C16_Witness ==
    /\ Done /\ ValidTerm
    /\ \E k \in RowIdx :
         /\ rows[k].status = "working" /\ rows[k].dayName = "Wednesday"
         /\ patternLookup("Wednesday", "s1") = "G" /\ patternLookup("Wednesday", "s2") = "undefined"
         /\ rows[k].slotMappings["s1"].type = "empty" /\ rows[k].slotMappings["s2"].type = "empty"
    /\ \E k \in RowIdx : \E slotId \in SlotIds :
         LET m == rows[k].slotMappings[slotId]
         IN  /\ "luNumber" \in DOMAIN m /\ m.luNumber = 3
             /\ m.color = "#6366f1" /\ m.type = "subject"
    /\ counterOf(subjectLUCounters, "G") = 0 /\ counterOf(subjectLUCounters, "A") >= 3

\* C17: when parseExcelImport rejects, the handler leaves config as it was when
\* the file was chosen (nothing of what was parsed before the failure is
\* merged), shows one alert and clears loading; config changes only in the
\* step that handles a resolved import, and becomes the previous config with
\* the imported fields replaced.
C17_FailedImportKeepsConfig ==
    /\ [][(importPc = "settled" /\ promise = "rejected" /\ importPc' = "idle") =>
            /\ config' = config /\ config' = configAtUpload
            /\ alerts' = alerts + 1
            /\ loading /\ ~loading']_vars
    /\ [][config' # config =>
            /\ importPc = "settled" /\ promise = "resolved" /\ file.throwsAt > Len(SheetOrder)
            /\ config' = mergeImported(configAtUpload, localConfig)
            /\ alerts' = alerts /\ ~loading']_vars
    /\ [](importPc \in {"scheduled", "reading", "settled"} => config = configAtUpload)
    /\ [](alerts <= uploads)

\* A failed import has been handled whose workbook had set fields of the
\* local config before the exception, and the configuration is as before.
C17_Witness ==
    /\ importPc = "idle" /\ promise = "rejected" /\ file.readable
    /\ file.throwsAt = Len(SheetOrder) /\ DOMAIN localConfig # {}
    /\ \E field \in DOMAIN localConfig : localConfig[field] # config[field]
    /\ config = configAtUpload /\ alerts = 1 /\ ~loading

\* C18: every import attempt ends: the promise of parseExcelImport that is
\* pending eventually resolves or rejects, whatever the file, and loading,
\* once set by an upload, eventually returns to false.
C18_EveryImportEnds ==
    /\ (promise = "pending") ~> (promise \in {"resolved", "rejected"})
    /\ loading ~> ~loading

\* The same for the imports whose file can be read, and for all imports when
\* parseExcelImport sets reader.onerror.
C18_ReadableImportEnds ==
    /\ (promise = "pending" /\ (file.readable \/ parserVersion = "withOnError"))
            ~> (promise \in {"resolved", "rejected"})
    /\ (loading /\ (file.readable \/ parserVersion = "withOnError")) ~> ~loading

\* Where an import of an unreadable file stays for ever.
C18_Stuck == importPc = "readFailed" /\ promise = "pending" /\ loading /\ ~ENABLED NextImport

\* The slot occupancies of kind 'subject' of the schedule, as <<row, slot
\* position>> pairs.
SubjectOccupancies ==
    {ks \in RowIdx \X (1..Len(config.slots)) :
        rows[ks[1]].slotMappings[config.slots[ks[2]].id].type = "subject"}

\* The course id the generator resolves for an occupancy of subject sub: the
\* per-LU course id when the LU is mapped, else the subject's default.
GeneratorCourseId(sub, m) ==
    IF "luNumber" \in DOMAIN m /\ m.luNumber \in DOMAIN sub.courseIdMap /\ sub.courseIdMap[m.luNumber] # ""
    THEN sub.courseIdMap[m.luNumber]
    ELSE sub.courseId

Matrix == exportStructuredScheduleToExcel(variant, rows, config.slots)

\* C19: for the schedule generated from the configuration the export has,
\* after the squad row and the 7-column header row, one data row for each
\* occupancy of kind 'subject' and no other, in date order and within a date
\* in slot order, each with the Day Record's date and the 1-based slot
\* position, and (phase-tagged variant) the course id the generator resolved.
C19_MatrixRowsAreSubjectOccupancies ==
    Done =>
        /\ Len(Matrix.squad) = 1 /\ Len(Matrix.headers) = 7
        /\ Len(Matrix.data) = Cardinality(SubjectOccupancies)
        /\ \A j \in 1..Len(Matrix.data) :
             \E ks \in SubjectOccupancies :
                LET m == rows[ks[1]].slotMappings[config.slots[ks[2]].id]
                IN  /\ Matrix.data[j].date = rows[ks[1]].date
                    /\ Matrix.data[j].slot_number = ks[2]
                    /\ variant = "tagged" =>
                          Matrix.data[j].course_id
                              = GeneratorCourseId(config.subjects[findSubject(m.subjectId)], m)
        /\ \A j \in 1..(Len(Matrix.data) - 1) :
             \/ Matrix.data[j].date.day < Matrix.data[j + 1].date.day
             \/ /\ Matrix.data[j].date = Matrix.data[j + 1].date
                /\ Matrix.data[j].slot_number < Matrix.data[j + 1].slot_number

\* The same for configurations whose phases all have weekOrder >= 1, for
\* which the schedule itself is in date order.
C19_MatrixRowsPositiveWeeks ==
    (\A i \in 1..NumPhases : config.cas[i].weekOrder >= 1) => C19_MatrixRowsAreSubjectOccupancies

\* A returned schedule of the phase-tagged variant with assessment days and
\* empty slots, whose export has a row with a per-LU course id, a row with the
\* default course id, a row for an overflow occupancy and one for an untracked
\* subject.
C19_Witness ==
    /\ Done /\ variant = "tagged" /\ ValidTerm
    /\ \E k \in RowIdx : rows[k].status = "ca"
    /\ \E k \in RowIdx : rows[k].status = "working" /\ rows[k].slotMappings["s1"].type = "empty"
    /\ \E j \in 1..Len(Matrix.data) : Matrix.data[j].course_id = "CRS-A2" /\ Matrix.data[j].slot_number = 2
    /\ \E j \in 1..Len(Matrix.data) : Matrix.data[j].course_id = "CRS-A" /\ Matrix.data[j].lu_id = <<"AP_LU_1">>
    /\ \E j \in 1..Len(Matrix.data) : Matrix.data[j].lu_id = <<>>
    /\ \E j \in 1..Len(Matrix.data) : Matrix.data[j].lu_id = <<"BIO">> /\ Matrix.data[j].course_id = ""
    /\ Len(Matrix.data) < 2 * Len(rows)

\* The kinds of the occupancies of row k.
KindsOf(k) == {rows[k].slotMappings[slotId].type : slotId \in DOMAIN rows[k].slotMappings}

\* C20: every Day Record has one occupancy for each configured slot id and for
\* nothing else; on a 'ca' day all are 'ca', on an 'event' day all are
\* 'event', on a 'holiday' or 'weekend' day all are 'empty', and a 'subject'
\* occupancy is found on 'working' days only (where the others are 'empty').
C20_OccupanciesFollowStatus ==
    \A k \in RowIdx :
        /\ DOMAIN rows[k].slotMappings = SlotIds
        /\ rows[k].status = "ca" => KindsOf(k) = {"ca"}
        /\ rows[k].status = "event" => KindsOf(k) = {"event"}
        /\ rows[k].status \in {"holiday", "weekend"} => KindsOf(k) = {"empty"}
        /\ "subject" \in KindsOf(k) => rows[k].status = "working"
        /\ rows[k].status = "working" => KindsOf(k) \subseteq {"subject", "empty"}
        /\ rows[k].status \in {"working", "holiday", "weekend", "ca", "event"}

\* A returned schedule with a day of each status, the holiday on a weekday
\* whose pattern names subjects, and a working day with both kinds.
C20_Witness ==
    /\ Done /\ ValidTerm
    /\ {rows[k].status : k \in RowIdx} = {"working", "holiday", "weekend", "ca", "event"}
    /\ \E k \in RowIdx : rows[k].status = "holiday" /\ findSubject(patternLookup(rows[k].dayName, "s1")) # 0
    /\ \E k \in RowIdx : rows[k].status = "working" /\ KindsOf(k) = {"subject", "empty"}

\* Module i of subject sub contains LU n.
ModuleContains(sub, i, n) == sub.modules[i].startLU <= n /\ n <= sub.modules[i].endLU

\* C21: in the phase-tagged variant an LU-numbered occupancy of a tracked
\* subject has n <= totalLUs, the colour of the first module in list order
\* whose range contains n (the base colour when none does), and the course id
\* courseIdMap[n] when there is such an entry, else the subject's default; an
\* overflow occupancy is grey '#94a3b8', carries no LU number and has the
\* subject's default course id.
C21_ModuleAndCourseResolution ==
    variant = "tagged" =>
        \A k \in RowIdx : \A slotId \in DOMAIN rows[k].slotMappings :
            LET m == rows[k].slotMappings[slotId]
            IN  (m.type = "subject" /\ config.subjects[findSubject(m.subjectId)].totalLUs > 0) =>
                    LET sub == config.subjects[findSubject(m.subjectId)]
                    IN  IF "luNumber" \in DOMAIN m
                        THEN /\ m.luNumber >= 1 /\ m.luNumber <= sub.totalLUs
                             /\ m.label = <<sub.name, " - LU ", m.luNumber>>
                             /\ \/ \E i \in 1..Len(sub.modules) :
                                      /\ ModuleContains(sub, i, m.luNumber)
                                      /\ \A j \in 1..(i - 1) : ~ModuleContains(sub, j, m.luNumber)
                                      /\ m.color = sub.modules[i].color
                                \/ /\ \A i \in 1..Len(sub.modules) : ~ModuleContains(sub, i, m.luNumber)
                                   /\ m.color = sub.color
                             /\ m.courseId = IF m.luNumber \in DOMAIN sub.courseIdMap
                                             THEN sub.courseIdMap[m.luNumber] ELSE sub.courseId
                        ELSE /\ m.label = <<sub.name, " - completed">>
                             /\ m.color = "#94a3b8"
                             /\ m.courseId = sub.courseId

\* A returned schedule in which Algebra's LU 2 lies in both modules and has
\* the first one's colour and its own course id, LU 3 has the second module's
\* colour and the default course id, and an overflow occupancy follows.
C21_Witness ==
    /\ Done /\ variant = "tagged" /\ Len(config.subjects[1].modules) = 2
    /\ \E k \in RowIdx : \E slotId \in SlotIds :
         LET m == rows[k].slotMappings[slotId]
         IN  "luNumber" \in DOMAIN m /\ m.luNumber = 2 /\ m.color = "#ec4899" /\ m.courseId = "CRS-A2"
    /\ \E k \in RowIdx : \E slotId \in SlotIds :
         LET m == rows[k].slotMappings[slotId]
         IN  "luNumber" \in DOMAIN m /\ m.luNumber = 3 /\ m.color = "#10b981" /\ m.courseId = "CRS-A"
    /\ \E k \in RowIdx : \E slotId \in SlotIds :
         rows[k].slotMappings[slotId].label = <<"Algebra", " - completed">>

\* The anchor of row k in the phase-tagged variant: the date of the first
\* record that carries the same phaseId.
AnchorDay(k) ==
    RowDay(CHOOSE a \in RowIdx :
              /\ rows[a].phaseId = rows[k].phaseId
              /\ \A b \in RowIdx : rows[b].phaseId = rows[k].phaseId => a <= b)

\* C22: in the phase-tagged variant the numbering restarts at each phase
\* anchor: the record k days after the first date of its window (a phase
\* window, or the trailing block) has weekNumber = (k div 7) + 1 and dayInWeek
\* = (k mod 7) + 1, so the first record of every window has 1 and 1, and
\* dayInWeek is always in 1..7.
C22_NumberingRestartsAtAnchor ==
    (Done /\ variant = "tagged" /\ ValidTerm /\ \A i \in 1..NumPhases : config.cas[i].weekOrder >= 1) =>
        \A k \in RowIdx :
            /\ rows[k].weekNumber = ((RowDay(k) - AnchorDay(k)) \div 7) + 1
            /\ rows[k].dayInWeek = ((RowDay(k) - AnchorDay(k)) % 7) + 1
            /\ rows[k].dayInWeek \in 1..7

\* What the code numbers by: the days since the term's start date, in both
\* variants.
C22_NumberingFromTermStart ==
    (Done /\ ValidTerm /\ \A i \in 1..NumPhases : config.cas[i].weekOrder >= 1) =>
        \A k \in RowIdx :
            /\ rows[k].weekNumber = ((RowDay(k) - TermStart) \div 7) + 1
            /\ rows[k].dayInWeek = ((RowDay(k) - TermStart) % 7) + 1

\* The statuses a generation path assigns.
ProducedStatuses == {"working", "holiday", "weekend", "ca", "event"}

\* C23: every Day Record of every schedule, of either variant, has one of the
\* statuses 'working', 'holiday', 'weekend', 'ca', 'event'; 'blocked' is never
\* produced.
C23_BlockedNeverProduced ==
    \A k \in RowIdx : rows[k].status \in ProducedStatuses /\ rows[k].status # "blocked"

\* A returned schedule of the safety-counter variant, of nine records or more,
\* in which each of the five statuses occurs.
C23_Witness ==
    /\ Done /\ ValidTerm /\ Len(rows) >= 9
    /\ {rows[k].status : k \in RowIdx} = ProducedStatuses
    /\ variant = "safe"

\* The ids a counter could be kept for: the roster, the ids the weekly pattern
\* names, and whatever the counter table holds.
CounterIds ==
    RosterIds \cup DOMAIN subjectLUCounters \cup {"G", "undefined"}

\* The slots the weekly pattern gives to id x on weekday dayName.
SlotsGiven(dayName, x) == {slotId \in SlotIds : patternLookup(dayName, slotId) = x}

IsTracked(x) == findSubject(x) # 0 /\ config.subjects[findSubject(x)].totalLUs > 0

\* C24: during a generation pass no LU counter ever decreases; the step that
\* materializes a date raises the counter of each tracked subject by the
\* number of slots the weekly pattern gives it on that weekday when the
\* record's status is 'working', and changes no counter when the status is
\* 'holiday', 'weekend', 'ca' or 'event'; counters of untracked subjects and
\* of ids outside the roster never change, and no other step changes a counter.
C24_CountersAdvanceOnWorkingSlots ==
    [][\A x \in CounterIds \cup DOMAIN subjectLUCounters' :
          LET before == counterOf(subjectLUCounters, x)
              after == counterOf(subjectLUCounters', x)
          IN  /\ after >= before
              /\ IF Len(rows') = Len(rows) + 1
                 THEN LET r == rows'[Len(rows')]
                      IN  after - before =
                              IF r.status = "working" /\ IsTracked(x)
                              THEN Cardinality(SlotsGiven(r.dayName, x))
                              ELSE 0
                 ELSE after = before]_vars

\* A returned schedule with a Tuesday on which Algebra was given both slots,
\* an assessment day and a holiday whose weekday pattern names Algebra, and
\* slots of the untracked Biology; Algebra's counter is the number of its
\* occupancies, Biology has none.
C24_Witness ==
    /\ Done /\ ValidTerm
    /\ \E k \in RowIdx :
         /\ rows[k].status = "working" /\ rows[k].dayName = "Tuesday"
         /\ SlotsGiven("Tuesday", "A") = {"s1", "s2"}
    /\ \E k \in RowIdx : rows[k].status = "ca" /\ SlotsGiven(rows[k].dayName, "A") # {}
    /\ \E k \in RowIdx : rows[k].status = "holiday" /\ SlotsGiven(rows[k].dayName, "A") # {}
    /\ \E k \in RowIdx : rows[k].status = "working" /\ SlotsGiven(rows[k].dayName, "B") # {}
    /\ ~IsTracked("B") /\ counterOf(subjectLUCounters, "B") = 0
    /\ counterOf(subjectLUCounters, "A") >= 4

\* C25: in the phase-tagged variant, for startDate <= endDate, the window of
\* phase i is [cursor, windowEnd) with windowEnd = min(cursor + 7 * weekOrder,
\* term end), the next cursor is that windowEnd, the records tagged with the
\* phase are those of the window's dates, and the record of the term-end date
\* exists, carries phaseId 'post-ca-phase' and is neither 'ca' nor 'event'.
C25_ClampedHalfOpenWindows ==
    (variant = "tagged" /\ ValidTerm) =>
        /\ pc = "fill" =>
              /\ currentPhasePointer = PhaseCursor(phaseIdx)
              /\ phaseLimitDate = Min(currentPhasePointer + 7 * config.cas[phaseIdx].weekOrder, TermEnd)
              /\ phaseLimitDate = PhaseCursor(phaseIdx + 1)
              /\ \A k \in RowsOf(phaseIdx) : currentPhasePointer <= RowDay(k) /\ RowDay(k) < phaseLimitDate
        /\ Done =>
              /\ \A i \in 1..NumPhases :
                    {RowDay(k) : k \in RowsOf(i)} = PhaseCursor(i)..(PhaseCursor(i + 1) - 1)
              /\ \E k \in RowIdx : RowDay(k) = TermEnd
              /\ \A k \in RowIdx :
                    RowDay(k) = TermEnd =>
                        rows[k].phaseId = "post-ca-phase" /\ rows[k].status \notin {"ca", "event"}

\* A returned schedule whose last phase's nominal window passes the term end,
\* which is a working day: the phase has its assessment day before the term
\* end and the term-end record is an ordinary working day after the phases.
C25_Witness ==
    /\ Done /\ variant = "tagged" /\ ValidTerm /\ NumPhases = 2
    /\ PhaseCursor(2) + 7 * config.cas[2].weekOrder > TermEnd
    /\ PhaseCursor(2) < TermEnd
    /\ config.cas[2].duration >= 1
    /\ \E k \in RowsOf(2) : rows[k].status = "ca"
    /\ \E k \in RowIdx : RowDay(k) = TermEnd /\ rows[k].status = "working"
                          /\ rows[k].phaseId = "post-ca-phase"

\* The records dated in the window of phase i that have status st.
WindowRowsWith(i, st) == {k \in RowIdx : RowDay(k) \in PhaseWindow(i) /\ rows[k].status = st}

\* C26: (phase-tagged) for every phase with duration >= 0 and eventDays >= 0
\* whose window holds W working non-holiday dates, exactly min(duration, W)
\* records of the window are 'ca' and exactly
\* min(eventDays, max(0, W - duration)) are 'event'; no date is both, and every
\* 'ca' date of a phase is earlier than every 'event' date of that phase.
C26_ExactBlockSizes ==
    (Done /\ variant = "tagged" /\ ValidTerm)
    => \A i \in 1..NumPhases :
         LET ca == config.cas[i]
             W == Cardinality(WindowWorking(i))
         IN  (ca.duration >= 0 /\ ca.eventDays >= 0)
             => /\ Cardinality(WindowRowsWith(i, "ca")) = Min(ca.duration, W)
                /\ Cardinality(WindowRowsWith(i, "event")) = Min(ca.eventDays, Max(0, W - ca.duration))
                /\ \A k \in WindowRowsWith(i, "ca") : \A l \in RowIdx :
                     rows[l].status = "event" => RowDay(l) # RowDay(k)
                /\ \A k \in RowsOf(i) : \A l \in RowsOf(i) :
                     (rows[k].status = "ca" /\ rows[l].status = "event") => RowDay(k) < RowDay(l)

\* A Monday-to-Friday week whose Friday is a holiday, duration 2, eventDays 1:
\* four working days are left, and the block is Tuesday and Wednesday 'ca',
\* Thursday 'event', the holiday keeping its own status.
C26_Witness ==
    /\ Done /\ variant = "tagged" /\ ValidTerm /\ NumPhases >= 1
    /\ config.cas[1].duration = 2 /\ config.cas[1].eventDays = 1
    /\ \E t \in PhaseWindow(1) : ActiveWeekday(t) /\ ConfiguredHoliday(t)
    /\ Cardinality(WindowWorking(1)) = 4
    /\ Cardinality(WindowRowsWith(1, "ca")) = 2
    /\ Cardinality(WindowRowsWith(1, "event")) = 1
    /\ \E k \in RowsOf(1) : rows[k].status = "holiday" /\ \A l \in WindowRowsWith(1, "event") : RowDay(l) < RowDay(k)

\* C27: (phase-tagged) for every weekOrder a phase can carry, negative ones
\* included, and startDate <= endDate, no record is dated before startDate or
\* after endDate, no date is emitted twice, and the phase cursor never moves
\* backwards.
C27_RobustToPhaseLength ==
    /\ []((variant = "tagged" /\ ValidTerm)
           => /\ \A k \in RowIdx : TermStart <= RowDay(k) /\ RowDay(k) <= TermEnd
              /\ \A k \in RowIdx : \A l \in RowIdx : RowDay(k) = RowDay(l) => k = l)
    /\ [][(variant = "tagged" /\ ValidTerm /\ pc = "fill")
           => currentPhasePointer' >= currentPhasePointer]_vars

\* The same for phases of one week or more: it holds.
C27_RobustForPositiveWeeks ==
    /\ []((variant = "tagged" /\ ValidTerm /\ \A i \in 1..NumPhases : config.cas[i].weekOrder >= 1)
           => /\ \A k \in RowIdx : TermStart <= RowDay(k) /\ RowDay(k) <= TermEnd
              /\ \A k \in RowIdx : \A l \in RowIdx : RowDay(k) = RowDay(l) => k = l)
    /\ [][(variant = "tagged" /\ ValidTerm /\ pc = "fill" /\ \A i \in 1..NumPhases : config.cas[i].weekOrder >= 1)
           => currentPhasePointer' >= currentPhasePointer]_vars

\* The (row, slot) pairs of the schedule that are occupancies of subject id.
OccupancyPairs(id) ==
    {ks \in RowIdx \X SlotIds :
        /\ ks[2] \in DOMAIN rows[ks[1]].slotMappings
        /\ rows[ks[1]].slotMappings[ks[2]].type = "subject"
        /\ rows[ks[1]].slotMappings[ks[2]].subjectId = id}

CompletedPairs(id) ==
    {ks \in OccupancyPairs(id) : endsWithCompleted(rows[ks[1]].slotMappings[ks[2]].label)}

UniqueSubjectIds ==
    \A i \in 1..Len(config.subjects) : \A j \in 1..Len(config.subjects) :
        config.subjects[i].id = config.subjects[j].id => i = j

\* C28: for the schedule generated from a configuration with unique subject
\* ids, calculateUtilizationStats has one entry per LU-tracked subject, in
\* roster order, with availableSlots = the number of the subject's occupancies
\* in the schedule, utilizedSlots = min(availableSlots, totalLUs) and
\* unutilizedSlots = the number of its 'completed' occupancies.
C28_UtilizationMatchesGenerator ==
    (Done /\ UniqueSubjectIds)
    => LET stats == calculateUtilizationStats("tagged", rows)
       IN  /\ Len(stats) = Len(TrackedSubjects)
           /\ \A i \in 1..Len(TrackedSubjects) :
                LET sub == TrackedSubjects[i]
                IN  /\ stats[i].subjectName = sub.name
                    /\ stats[i].availableSlots = Cardinality(OccupancyPairs(sub.id))
                    /\ stats[i].utilizedSlots = Min(stats[i].availableSlots, sub.totalLUs)
                    /\ stats[i].unutilizedSlots = Cardinality(CompletedPairs(sub.id))

\* A phase-tagged schedule with a holiday and an assessment day in which a
\* subject of three LUs has five occupancies, two of them 'completed'.
C28_Witness ==
    /\ Done /\ variant = "tagged" /\ UniqueSubjectIds /\ TrackedSubjects # <<>>
    /\ \E k \in RowIdx : rows[k].status = "holiday"
    /\ \E k \in RowIdx : rows[k].status = "ca"
    /\ LET e == calculateUtilizationStats("tagged", rows)[1]
           sub == TrackedSubjects[1]
       IN  /\ sub.totalLUs = 3 /\ e.availableSlots = 5 /\ e.utilizedSlots = 3 /\ e.unutilizedSlots = 2
           /\ Cardinality(CompletedPairs(sub.id)) = 2

\* C29: for every schedule the phase-tagged generateMasterSchedule returned,
\* calculateProgramStats gives restDaysTotal + holidays + assessmentDays +
\* eventDays + workingDays = totalDays, restSaturdays + restSundays <=
\* restDaysTotal and learningDays <= workingDays, and computing it leaves the
\* schedule as it was.
C29_ProgramTotalsPartitionTerm ==
    /\ []((Done /\ variant = "tagged" /\ programStats # <<>>)
           => /\ programStats.totalDays = Len(rows)
              /\ programStats.restDaysTotal + programStats.holidays + programStats.assessmentDays
                   + programStats.eventDays + programStats.workingDays = programStats.totalDays
              /\ programStats.restSaturdays + programStats.restSundays <= programStats.restDaysTotal
              /\ programStats.learningDays <= programStats.workingDays)
    /\ [][(variant = "tagged" /\ programStats' # programStats) => rows' = rows]_vars

\* The totals of a phase-tagged schedule with rest days on Saturday and on
\* Sunday, a holiday, an assessment day, an event day and a working day on
\* which nothing is taught.
C29_Witness ==
    /\ Done /\ variant = "tagged" /\ ValidTerm /\ programStats # <<>>
    /\ programStats.restSaturdays >= 1 /\ programStats.restSundays >= 1
    /\ programStats.holidays >= 1 /\ programStats.assessmentDays >= 1 /\ programStats.eventDays >= 1
    /\ programStats.learningDays >= 1 /\ programStats.learningDays < programStats.workingDays

\* The calendar day of a serial number: 1899-12-30 plus floor(v) days.
SerialDate(val) == ExcelEpochDay + val.day

ParsedNumber == excelCell.k = "number" /\ excelDate # NotParsed

\* C30: a numeric serial value v becomes the date 1899-12-30 plus floor(v)
\* days, moved to the following day only when the time of day of v is 20:00 or
\* later; before 20:00 it keeps its own calendar date.
C30_SerialSnapsAtTwenty ==
    ParsedNumber
    => excelDate = Iso(IF excelCell.q \div 4 >= SnapHour THEN SerialDate(excelCell) + 1
                       ELSE SerialDate(excelCell))

\* What the conversion does: a serial value other than 0 becomes the local
\* date half a day after its own instant, so with equal UTC offsets it keeps
\* its date before noon and gets the following day's from noon on; 0 gives ''.
C30_SerialRoundsAtNoon ==
    ParsedNumber
    => IF excelCell.day = 0 /\ excelCell.q = 0 THEN excelDate = EmptyString
       ELSE /\ excelDate \in {Iso(SerialDate(excelCell)), Iso(SerialDate(excelCell) + 1)}
            /\ excelDate = Iso(SerialDate(excelCell) + 1)
                 <=> excelCell.q + HalfDayQuarters + excelZone >= QuartersPerDay

\* The serial value of 2025-01-06 15:00 has been converted to 2025-01-07.
C30_AfternoonMoved ==
    /\ ParsedNumber /\ excelZone = 0
    /\ excelCell.day = SerialOfDayZero /\ excelCell.q = 60
    /\ excelDate = Iso(1)
====
